---- MODULE Spec2Model ----
(***************************************************************************)
(* A model of the enderpy front end: the lexer (parser/src/lexer/mod.rs)   *)
(* as a state machine over one source text, and the top level of the      *)
(* parser (parser/src/parser/parser.rs) driving it.                        *)
(*                                                                         *)
(* A source is a sequence of one-character strings.  Offsets are the       *)
(* code's 0-based byte offsets; every character of the model's alphabets   *)
(* is ASCII, so a character is one byte.                                   *)
(***************************************************************************)
EXTENDS Integers, Sequences, FiniteSets, TLC

VARIABLES
    source,     \* Lexer.source, fixed by Lexer::new
    lexer,      \* the mutable fields of Lexer, as a record
    token,      \* the Token the last call returned
    last_op,    \* which call returned it: "new", "next" or "peek"
    tokens,     \* every Token next_token has returned, in order
    parser,     \* the Parser that owns the lexer, once Parser::new has run
    next_tokens, \* what next_token returns in each state the lexer of the
                \* Parser can get into, tabulated by Parser::new
    panicked,   \* the process hit panic!/unreachable!/expect
    symbol_table, \* a SymbolTable: scopes and all_scopes
    COUNTER,    \* the static counter of get_id()
    walk,       \* the caller that builds the symbol table: its position in
                \* the program and the calls it has made
    answer      \* the last query of the symbol table and what it returned

\* the front end and the symbol table
lexvars == <<source, lexer, token, last_op, tokens, parser, next_tokens, panicked>>
symvars == <<symbol_table, COUNTER, walk, answer>>

vars == <<source, lexer, token, last_op, tokens, parser, next_tokens, panicked,
          symbol_table, COUNTER, walk, answer>>

-----------------------------------------------------------------------------
(* Bounds of the model *)

\* longest source over the indentation alphabet
MaxIndentLen == 8
\* longest source over the blank-line alphabet
MaxBlankLen == 6
\* longest source over the string-literal alphabet
MaxStrLen == 7
\* longest source over the bracket alphabet
MaxNestLen == 5
\* longest source over the number / stray-character alphabet
MaxMixedLen == 4
\* longest source over the f-string alphabet
MaxFStrLen == 6
\* next_token calls that are made after the first Eof
MaxEofCalls == 2
\* most lexemes of a source of the parser specification
MaxLexemes == 4
\* length of the source that only opens brackets (nesting is an i8)
DeepLen == 128

\* most scopes the caller of the symbol table enters
MaxScopes == 2
\* most add_symbol calls
MaxDecls == 3
\* greatest start of the node of a declaration
MaxStart == 2
\* most lexemes behind the import of a source of the parser
MaxImportLexemes == 3
\* most get_id() calls of the other pipelines of the process
MaxOtherIds == 2

\* '\t' counts as four columns (match_indentation, parse_token_value)
TabWidth == 4

-----------------------------------------------------------------------------
(* Characters *)

EOF == "EOF"                       \* Option::None of peek()/next()
SP == " "
TAB == "\t"
LF == "\n"
CR == "\r"
DQ == "\""
SQ == "'"
BSL == "\\"

Digits == {"0", "1", "2", "3", "4", "5", "6", "7", "8", "9"}
OctDigits == {"0", "1", "2", "3", "4", "5", "6", "7"}
HexDigits == Digits \cup {"a", "b", "c", "d", "e", "f", "A", "B", "C", "D", "E", "F"}
Lower == {"a", "b", "c", "d", "e", "f", "g", "h", "i", "j", "k", "l", "m",
          "n", "o", "p", "q", "r", "s", "t", "u", "v", "w", "x", "y", "z"}
Upper == {"A", "B", "C", "D", "E", "F", "G", "H", "I", "J", "K", "L", "M",
          "N", "O", "P", "Q", "R", "S", "T", "U", "V", "W", "X", "Y", "Z"}
IdStart == Lower \cup Upper \cup {"_"}
IdContinue == IdStart \cup Digits

\* all sequences over A of length 0..n
Strings(A, n) == UNION {[1..k -> A] : k \in 0..n}

Last(s) == s[Len(s)]
Front(s) == SubSeq(s, 1, Len(s) - 1)

-----------------------------------------------------------------------------
(* Lexer: character access *)

\* self.source[i..].chars().next()
CharAt(i) == IF i < Len(source) THEN source[i + 1] ELSE EOF

peek(s) == CharAt(s.current)
double_peek(s) == CharAt(s.current + 1)
triple_peek(s) == CharAt(s.current + 2)

\* next(): advances only when a character is left
next(s) == IF s.current < Len(source) THEN [s EXCEPT !.current = @ + 1] ELSE s
double_next(s) == next(next(s))

\* self.source[start..self.current]
extract_raw_token_value(s, start) == SubSeq(source, start + 1, s.current)

-----------------------------------------------------------------------------
(* Lexer::new *)

NewLexer ==
    [current |-> 0,
     current_line |-> 1,
     start_of_line |-> TRUE,
     indent_stack |-> <<0>>,
     nesting |-> 0,
     fstring_stack |-> <<>>,
     inside_fstring_bracket |-> 0,
     next_token_is_dedent |-> 0]

-----------------------------------------------------------------------------
(* Lexer::match_indentation *)

\* the loop over leading ' ' and '\t': <<spaces_count, lexer state>>
RECURSIVE CountSpaces(_, _)
CountSpaces(s, n) ==
    IF peek(s) = TAB THEN CountSpaces(next(s), n + TabWidth)
    ELSE IF peek(s) = SP THEN CountSpaces(next(s), n + 1)
    ELSE <<n, s>>

\* whether some level of the stack equals n
\* variant of OnStack: every column passes for a level of the stack
OnStackAlways(stack, n) == TRUE

OnStack(stack, n) == \E i \in 1..Len(stack) : stack[i] = n

\* the blank-line test of match_indentation
BlankLineAhead(s) == peek(s) = LF /\ double_peek(s) # EOF

\* the comparison of spaces_count with the stack, after the counting loop
\* left the lexer in s
CompareIndentation(spaces_count, s) ==
    IF spaces_count = 0 /\ BlankLineAhead(s)
    THEN [res |-> "NoKind", s |-> s]
    ELSE IF Len(s.indent_stack) = 0
    THEN [res |-> "NoKind", s |-> s]
    ELSE IF spaces_count < Last(s.indent_stack)
    THEN IF OnStack(s.indent_stack, spaces_count)
         THEN [res |-> "Dedent", s |-> s]
         ELSE [res |-> "Err", s |-> s]
    ELSE IF spaces_count = Last(s.indent_stack)
    THEN [res |-> "WhiteSpace", s |-> s]
    ELSE [res |-> "Indent",
          s |-> [s EXCEPT !.indent_stack = Append(@, spaces_count)]]

\* cs is <<spaces_count, lexer state>> of the counting loop
Compared(cs) == CompareIndentation(cs[1], cs[2])

\* res is "NoKind" (Ok(None)), a Kind (Ok(Some(kind))) or "Err"
match_indentation(s0) == Compared(CountSpaces(s0, 0))

-----------------------------------------------------------------------------
(* Lexer::skip_to_str_end *)

\* the test that ends a string: this quote is not preceded by a backslash
NotEscaped(last_read_char) == last_read_char # BSL

\* the opening quote is followed by two more: a triple-quoted literal
IsTripleStart(s, str_start) == peek(s) = str_start /\ double_peek(s) = str_start

\* what is consumed of the opening quotes before the body is scanned
SkipOpeningQuotes(s) == next(s)

\* the loop of the triple-quoted branch
RECURSIVE TripleLoop(_, _, _)
TripleLoop(s, str_start, last_read_char) ==
    IF peek(s) = EOF THEN [ok |-> FALSE, s |-> s]
    ELSE LET c == peek(s)
             s1 == next(s)
         IN  IF /\ c = str_start
                /\ peek(s1) = str_start
                /\ double_peek(s1) = str_start
                /\ NotEscaped(last_read_char)
             THEN [ok |-> TRUE, s |-> double_next(s1)]
             ELSE TripleLoop(s1, str_start, c)

\* the loop of the one-character-delimiter branch
RECURSIVE SingleLoop(_, _, _)
SingleLoop(s, str_start, last_read_char) ==
    IF peek(s) = EOF THEN [ok |-> FALSE, s |-> s]
    ELSE LET c == peek(s)
             s1 == next(s)
         IN  IF c = str_start /\ NotEscaped(last_read_char)
             THEN [ok |-> TRUE, s |-> s1]
             ELSE SingleLoop(s1, str_start, c)

\* ok = FALSE is Err(StringNotTerminated)
skip_to_str_end(s, str_start) ==
    IF IsTripleStart(s, str_start)
    THEN TripleLoop(SkipOpeningQuotes(s), str_start, str_start)
    ELSE SingleLoop(s, str_start, str_start)

\* a Result<Kind, LexError> of a string literal of kind k
StrResult(r, k) ==
    IF r.ok THEN [kind |-> k, err |-> "", s |-> r.s]
    ELSE [kind |-> "Error", err |-> "StringNotTerminated", s |-> r.s]

Ok(k, s) == [kind |-> k, err |-> "", s |-> s]
Err(e, s) == [kind |-> "Error", err |-> e, s |-> s]

-----------------------------------------------------------------------------
(* Lexer::create_f_string_start and Lexer::next_fstring_token *)

\* <<terminator, lexer state>>
create_f_string_start(s, str_start) ==
    IF peek(s) = str_start /\ double_peek(s) = str_start
    THEN <<(<<str_start, str_start, str_start>>), double_next(s)>>
    ELSE <<(<<str_start>>), s>>

PushFString(s, str_start, k) ==
    LET f == create_f_string_start(s, str_start)
    IN  Ok(k, [f[2] EXCEPT !.fstring_stack = Append(@, f[1])])

\* the while loop of next_fstring_token; last is the last character of
\* consumed_str_in_fstring ("" while it is empty); kind "NoKind" is Option::None
RECURSIVE FStringLoop(_, _)
FStringLoop(s, last) ==
    IF peek(s) = EOF THEN [kind |-> "NoKind", s |-> s]
    ELSE
    LET curr == peek(s)
        s1 == next(s)
        fin == Last(s.fstring_stack)
        popped == [s1 EXCEPT !.fstring_stack = Front(@)]
    IN  IF curr = "{"
        THEN IF peek(s1) = "{"
             THEN FStringLoop(double_next(s1), "{")
             ELSE [kind |-> "LeftBracket",
                   s |-> [s1 EXCEPT !.inside_fstring_bracket = @ + 1]]
        ELSE IF Len(fin) = 1 /\ curr = fin[1]
        THEN [kind |-> "FStringEnd", s |-> popped]
        ELSE IF /\ Len(fin) = 3
                /\ curr = fin[1]
                /\ peek(s1) = fin[2]
                /\ double_peek(s1) = fin[3]
        THEN [kind |-> "FStringEnd", s |-> double_next(popped)]
        ELSE IF peek(s1) = EOF
        THEN [kind |-> "NoKind", s |-> s1]
        ELSE IF peek(s1) = "{" /\ double_peek(s1) # "{"
        THEN [kind |-> "FStringMiddle", s |-> s1]
        ELSE IF last = BSL
        THEN FStringLoop(s1, curr)
        ELSE IF Len(fin) = 1 /\ peek(s1) = fin[1]
        THEN [kind |-> "FStringMiddle", s |-> s1]
        ELSE IF /\ Len(fin) = 3
                /\ peek(s1) = fin[1]
                /\ double_peek(s1) = fin[2]
                /\ triple_peek(s1) = fin[3]
        THEN [kind |-> "FStringMiddle", s |-> s1]
        ELSE FStringLoop(s1, last)

next_fstring_token(s) ==
    IF s.inside_fstring_bracket > 0
    THEN IF peek(s) = "}" /\ double_peek(s) # "}"
         THEN [kind |-> "RightBracket",
               s |-> [next(s) EXCEPT !.inside_fstring_bracket = @ - 1]]
         ELSE [kind |-> "NoKind", s |-> s]
    ELSE FStringLoop(s, "")

-----------------------------------------------------------------------------
(* Lexer::match_numeric_literal *)

\* the digit loop of a 0b / 0o / 0x literal over the alphabet digits
RECURSIVE BaseLoop(_, _, _, _)
BaseLoop(s, digits, kind, err) ==
    LET c == peek(s)
    IN  IF c = EOF THEN Ok(kind, s)
        ELSE IF c \in digits \/ c = "_" THEN BaseLoop(next(s), digits, kind, err)
        ELSE Err(err, s)

\* the loop after '.', with has_exponent
RECURSIVE FractionLoop(_, _)
FractionLoop(s, has_exponent) ==
    LET c == peek(s)
        Done(imag, st) ==
            Ok(IF has_exponent
               THEN (IF imag THEN "ImaginaryExponentFloat" ELSE "ExponentFloat")
               ELSE (IF imag THEN "ImaginaryPointFloat" ELSE "PointFloat"), st)
    IN  IF c \in Digits \/ c = "_" THEN FractionLoop(next(s), has_exponent)
        ELSE IF c \in {"e", "E"}
        THEN LET s1 == next(s)
             IN  IF peek(s1) \in {"+", "-"} \cup Digits
                 THEN FractionLoop(next(s1), TRUE)
                 ELSE Err("InvalidDigitInDecimalLiteral", s1)
        ELSE IF c \in {"j", "J"} THEN Done(TRUE, next(s))
        ELSE Done(FALSE, s)

\* the loop after 'e' and its optional sign
RECURSIVE ExponentLoop(_)
ExponentLoop(s) ==
    LET c == peek(s)
    IN  IF c \in Digits \/ c = "_" THEN ExponentLoop(next(s))
        ELSE IF c \in {"j", "J"} THEN Ok("ImaginaryExponentFloat", next(s))
        ELSE Ok("ExponentFloat", s)

\* the loop of a decimal literal
RECURSIVE DecimalLoop(_)
DecimalLoop(s) ==
    LET c == peek(s)
    IN  IF c = "." THEN FractionLoop(next(s), FALSE)
        ELSE IF c \in {"e", "E"}
        THEN LET s1 == next(s)
             IN  ExponentLoop(IF peek(s1) \in {"+", "-"} THEN next(s1) ELSE s1)
        ELSE IF c \in Digits \/ c = "_" THEN DecimalLoop(next(s))
        ELSE IF c \in {"j", "J"} THEN Ok("ImaginaryInteger", next(s))
        ELSE Ok("Integer", s)

\* the first digit is already consumed
match_numeric_literal(s) ==
    LET c == peek(s)
    IN  IF c \in {"b", "B"}
        THEN BaseLoop(next(s), {"0", "1"}, "Binary", "InvalidDigitInBinaryLiteral")
        ELSE IF c \in {"o", "O"}
        THEN BaseLoop(next(s), OctDigits, "Octal", "InvalidDigitInOctalLiteral")
        ELSE IF c \in {"x", "X"}
        THEN BaseLoop(next(s), HexDigits, "Hexadecimal",
                      "InvalidDigitInHexadecimalLiteral")
        ELSE DecimalLoop(s)

-----------------------------------------------------------------------------
(* Lexer::match_str, extract_id, match_keyword, match_id_keyword *)

Quotes == {DQ, SQ}

\* kind "NoKind" is Ok(None): id_start does not start a string literal
match_str(s, id_start) ==
    LET p1 == peek(s)
        p2 == double_peek(s)
        NotStr == [kind |-> "NoKind", err |-> "", s |-> s]
    IN  IF id_start \in {"r", "R"}
        THEN IF p1 \in {"b", "B"}
             THEN IF p2 \in Quotes
                  THEN StrResult(skip_to_str_end(double_next(s), p2), "RawBytes")
                  ELSE NotStr
             ELSE IF p1 \in {"f", "F"}
             THEN IF p2 \in Quotes
                  THEN PushFString(double_next(s), p2, "RawFStringStart")
                  ELSE NotStr
             ELSE IF p1 \in Quotes
             THEN StrResult(skip_to_str_end(next(s), p1), "StringLiteral")
             ELSE NotStr
        ELSE IF id_start \in {"b", "B"}
        THEN IF p1 \in {"r", "R"}
             THEN IF p2 \in Quotes
                  THEN StrResult(skip_to_str_end(double_next(s), p2), "RawBytes")
                  ELSE NotStr
             ELSE IF p1 \in Quotes
             THEN StrResult(skip_to_str_end(next(s), p1), "Bytes")
             ELSE NotStr
        ELSE IF id_start \in {"f", "F"}
        THEN IF p1 \in {"r", "R"}
             THEN IF p2 \in Quotes
                  THEN PushFString(double_next(s), p2, "RawFStringStart")
                  ELSE NotStr
             ELSE IF p1 \in Quotes
             THEN PushFString(next(s), p1, "FStringStart")
             ELSE NotStr
        ELSE IF id_start \in {"u", "U"}
        THEN IF p1 \in Quotes
             THEN StrResult(skip_to_str_end(next(s), p1), "Unicode")
             ELSE NotStr
        ELSE NotStr

\* the identifier's characters after id_start are consumed
RECURSIVE extract_id(_)
extract_id(s) == IF peek(s) \in IdContinue THEN extract_id(next(s)) ELSE s

\* the keyword table of match_keyword: <<spelling, Kind>>
Keywords ==
    {
       <<<<"F", "a", "l", "s", "e">>, "False">>,
       <<<<"N", "o", "n", "e">>, "None">>,
       <<<<"T", "r", "u", "e">>, "True">>,
       <<<<"a", "n", "d">>, "And">>,
       <<<<"a", "s">>, "As">>,
       <<<<"a", "s", "s", "e", "r", "t">>, "Assert">>,
       <<<<"a", "s", "y", "n", "c">>, "Async">>,
       <<<<"a", "w", "a", "i", "t">>, "Await">>,
       <<<<"b", "r", "e", "a", "k">>, "Break">>,
       <<<<"c", "l", "a", "s", "s">>, "Class">>,
       <<<<"c", "o", "n", "t", "i", "n", "u", "e">>, "Continue">>,
       <<<<"d", "e", "f">>, "Def">>,
       <<<<"d", "e", "l">>, "Del">>,
       <<<<"e", "l", "i", "f">>, "Elif">>,
       <<<<"e", "l", "s", "e">>, "Else">>,
       <<<<"e", "x", "c", "e", "p", "t">>, "Except">>,
       <<<<"f", "i", "n", "a", "l", "l", "y">>, "Finally">>,
       <<<<"f", "o", "r">>, "For">>,
       <<<<"f", "r", "o", "m">>, "From">>,
       <<<<"g", "l", "o", "b", "a", "l">>, "Global">>,
       <<<<"i", "f">>, "If">>,
       <<<<"i", "m", "p", "o", "r", "t">>, "Import">>,
       <<<<"i", "n">>, "In">>,
       <<<<"i", "s">>, "Is">>,
       <<<<"l", "a", "m", "b", "d", "a">>, "Lambda">>,
       <<<<"n", "o", "n", "l", "o", "c", "a", "l">>, "Nonlocal">>,
       <<<<"n", "o", "t">>, "Not">>,
       <<<<"o", "r">>, "Or">>,
       <<<<"p", "a", "s", "s">>, "Pass">>,
       <<<<"r", "a", "i", "s", "e">>, "Raise">>,
       <<<<"r", "e", "t", "u", "r", "n">>, "Return">>,
       <<<<"t", "r", "y">>, "Try">>,
       <<<<"w", "h", "i", "l", "e">>, "While">>,
       <<<<"w", "i", "t", "h">>, "With">>,
       <<<<"y", "i", "e", "l", "d">>, "Yield">>
    }

match_keyword(ident) ==
    IF \E k \in Keywords : k[1] = ident
    THEN (CHOOSE k \in Keywords : k[1] = ident)[2]
    ELSE "Identifier"

\* the identifier e ends: a keyword or an Identifier
KeywordOrIdentifier(start, e) ==
    Ok(match_keyword(extract_raw_token_value(e, start)), e)

\* m is the result of match_str: a string literal, or else an identifier
StrOrIdentifier(s, m) ==
    IF m.kind # "NoKind" THEN m
    ELSE KeywordOrIdentifier(s.current - 1, extract_id(s))

\* id_start, the character before s.current, is already consumed
match_id_keyword(s) == StrOrIdentifier(s, match_str(s, source[s.current]))

-----------------------------------------------------------------------------
(* Lexer::next_kind *)

\* c followed by '=' is an augmented operator
WithAssign ==
    [c \in {"+", "%", "@", "&", "|", "^", ":", "="} |->
        CASE c = "+" -> <<"AddAssign", "Plus">>
          [] c = "%" -> <<"ModAssign", "Mod">>
          [] c = "@" -> <<"MatrixMulAssign", "MatrixMul">>
          [] c = "&" -> <<"BitAndAssign", "BitAnd">>
          [] c = "|" -> <<"BitOrAssign", "BitOr">>
          [] c = "^" -> <<"BitXorAssign", "BitXor">>
          [] c = ":" -> <<"Walrus", "Colon">>
          [] c = "=" -> <<"Eq", "Assign">>]

\* c doubled, c doubled and '=', c and '=', c alone
Doubled ==
    [c \in {"*", "/", "<", ">"} |->
        CASE c = "*" -> <<"Pow", "PowAssign", "MulAssign", "Mul">>
          [] c = "/" -> <<"IntDiv", "IntDivAssign", "DivAssign", "Div">>
          [] c = "<" -> <<"LeftShift", "ShiftLeftAssign", "LessEq", "Less">>
          [] c = ">" -> <<"RightShift", "ShiftRightAssign", "GreaterEq", "Greater">>]

\* one character, one token
Single ==
    [c \in {"~", ",", ";", BSL, "$", "?"} |->
        CASE c = "~" -> "BitNot"
          [] c = "," -> "Comma"
          [] c = ";" -> "SemiColon"
          [] c = BSL -> "BackSlash"
          [] c = "$" -> "Dollar"
          [] c = "?" -> "QuestionMark"]

Opening == [c \in {"(", "[", "{"} |->
              CASE c = "(" -> "LeftParen" [] c = "[" -> "LeftBrace" [] c = "{" -> "LeftBracket"]
Closing == [c \in {")", "]", "}"} |->
              CASE c = ")" -> "RightParen" [] c = "]" -> "RightBrace" [] c = "}" -> "RightBracket"]

LineTerminators == {LF, CR}

\* the loop of the '#' arm: up to, not including, the line terminator
RECURSIVE CommentLoop(_)
CommentLoop(s) ==
    IF peek(s) = EOF \/ peek(s) \in LineTerminators THEN s ELSE CommentLoop(next(s))

\* a line terminator is significant: no bracket is open
NewLineIsSignificant(nesting) == nesting = 0

\* the '\n' | '\r' arm
LineTerminator(s) ==
    LET s1 == [s EXCEPT !.current_line = @ + 1]
    IN  IF NewLineIsSignificant(s1.nesting)
        THEN Ok("NewLine", [s1 EXCEPT !.start_of_line = TRUE])
        ELSE Ok("WhiteSpace", s1)

\* match_whitespace
match_whitespace(c) == c \in {SP, TAB}

\* the loop of next_kind over self.next()
RECURSIVE MainLoop(_)
MainLoop(s0) ==
    IF peek(s0) = EOF THEN Ok("Eof", s0)
    ELSE
    LET c == peek(s0)
        s == [next(s0) EXCEPT !.start_of_line = FALSE]
        p == peek(s)
    IN  IF c \in Digits THEN match_numeric_literal(s)
        ELSE IF c \in IdStart THEN match_id_keyword(s)
        ELSE IF c \in Quotes THEN StrResult(skip_to_str_end(s, c), "StringLiteral")
        ELSE IF c \in DOMAIN WithAssign
        THEN IF p = "=" THEN Ok(WithAssign[c][1], next(s)) ELSE Ok(WithAssign[c][2], s)
        ELSE IF c = "-"
        THEN IF p = ">" THEN Ok("Arrow", next(s))
             ELSE IF p = "=" THEN Ok("SubAssign", next(s))
             ELSE Ok("Minus", s)
        ELSE IF c \in DOMAIN Doubled
        THEN IF p = c
             THEN IF double_peek(s) = "=" THEN Ok(Doubled[c][2], double_next(s))
                  ELSE Ok(Doubled[c][1], next(s))
             ELSE IF p = "=" THEN Ok(Doubled[c][3], next(s))
             ELSE Ok(Doubled[c][4], s)
        ELSE IF c = "!"
        THEN IF p = "=" THEN Ok("NotEq", next(s)) ELSE MainLoop(s)
        ELSE IF c \in DOMAIN Opening
        THEN Ok(Opening[c], [s EXCEPT !.nesting = @ + 1])
        ELSE IF c \in DOMAIN Closing
        THEN Ok(Closing[c], [s EXCEPT !.nesting = @ - 1])
        ELSE IF c = "."
        THEN IF p = "." /\ double_peek(s) = "." THEN Ok("Ellipsis", double_next(s))
             ELSE Ok("Dot", s)
        ELSE IF c \in DOMAIN Single THEN Ok(Single[c], s)
        ELSE IF c = "#" THEN Ok("Comment", CommentLoop(s))
        ELSE IF c \in LineTerminators THEN LineTerminator(s)
        ELSE IF match_whitespace(c) THEN Ok("WhiteSpace", s)
        ELSE MainLoop(s)

\* after the f-string step ft: its token, or else the loop over next()
AfterFString(ft) ==
    IF ft.kind # "NoKind" THEN Ok(ft.kind, ft.s) ELSE MainLoop(ft.s)

\* after the indentation step mi: its error or its token, or else the rest
AfterIndentation(mi) ==
    IF mi.res = "Err"
    THEN Err("UnindentDoesNotMatchAnyOuterIndentationLevel", mi.s)
    ELSE IF mi.res # "NoKind"
    THEN Ok(mi.res, [mi.s EXCEPT !.start_of_line = FALSE])
    ELSE AfterFString(IF mi.s.fstring_stack # <<>> THEN next_fstring_token(mi.s)
                      ELSE [kind |-> "NoKind", s |-> mi.s])

next_kind(s) ==
    AfterIndentation(IF s.start_of_line THEN match_indentation(s)
                     ELSE [res |-> "NoKind", s |-> s])

-----------------------------------------------------------------------------
(* Token, TokenValue and Lexer::parse_token_value *)

NoneValue == [tag |-> "None", text |-> <<>>, n |-> 0]
StrValue(raw) == [tag |-> "Str", text |-> raw, n |-> 0]
NumberValue(raw) == [tag |-> "Number", text |-> raw, n |-> 0]
IndentValue(k) == [tag |-> "Indent", text |-> <<>>, n |-> k]

Tok(k, v, start, end) == [kind |-> k, value |-> v, start |-> start, end |-> end]

NumberKinds ==
    {"Integer", "Hexadecimal", "Binary", "PointFloat", "Octal", "ExponentFloat",
     "ImaginaryInteger", "ImaginaryExponentFloat", "ImaginaryPointFloat"}
StrKinds ==
    {"Identifier", "StringLiteral", "FStringStart", "FStringMiddle", "FStringEnd",
     "RawBytes", "RawFStringStart", "Bytes", "Unicode", "Comment", "Error"}

\* the columns of the leading ' ' and '\t' of a raw token value
RECURSIVE RawSpaces(_, _)
RawSpaces(raw, i) ==
    IF i > Len(raw) THEN 0
    ELSE IF raw[i] = TAB THEN TabWidth + RawSpaces(raw, i + 1)
    ELSE IF raw[i] = SP THEN 1 + RawSpaces(raw, i + 1)
    ELSE 0

\* the pop loop of the Dedent arm: <<indent_stack, de_indents, unreachable hit>>
RECURSIVE PopLoop(_, _, _)
PopLoop(stack, spaces_count, de_indents) ==
    IF Len(stack) = 0 THEN <<stack, de_indents, FALSE>>
    ELSE IF Last(stack) > spaces_count
    THEN PopLoop(Front(stack), spaces_count, de_indents + 1)
    ELSE IF Last(stack) = spaces_count THEN <<stack, de_indents, FALSE>>
    ELSE <<stack, de_indents, TRUE>>

\* variant of QueuedDedents that forgets the Dedent that is returned at once
QueuedDedentsAll(de_indents) == de_indents

\* what the Dedent arm adds to next_token_is_dedent
QueuedDedents(de_indents) == IF de_indents # 1 THEN de_indents - 1 ELSE 0

\* panic: unreachable!() was hit, or de_indents - 1 underflowed on a build
\* that checks overflow (UnderflowWraps is the other build)
parse_token_value(s, kind, raw) ==
    IF kind \in NumberKinds THEN [value |-> NumberValue(raw), s |-> s, panic |-> FALSE]
    ELSE IF kind \in StrKinds THEN [value |-> StrValue(raw), s |-> s, panic |-> FALSE]
    ELSE IF kind = "Indent" THEN [value |-> IndentValue(1), s |-> s, panic |-> FALSE]
    ELSE IF kind = "Dedent"
    THEN LET pl == PopLoop(s.indent_stack, RawSpaces(raw, 1), 0)
         IN  [value |-> IndentValue(pl[2]),
              s |-> [s EXCEPT !.indent_stack = pl[1],
                              !.next_token_is_dedent = @ + QueuedDedents(pl[2])],
              panic |-> pl[3]]
    ELSE [value |-> NoneValue, s |-> s, panic |-> FALSE]

-----------------------------------------------------------------------------
(* Lexer::next_token and Lexer::peek_token *)

\* the end offset of an Error token
\* variant of ErrorEnd: the end of an unterminated string is moved forward
ErrorEndPastCursor(e, s) == IF e = "StringNotTerminated" THEN s.current + 1 ELSE s.current

ErrorEnd(e, s) == IF e = "StringNotTerminated" THEN s.current - 1 ELSE s.current

\* the Dedent that is owed from an earlier line
QueuedDedentToken(s) == Tok("Dedent", NoneValue, s.current, s.current)

RECURSIVE next_token(_)

\* the token of kind with the value v that parse_token_value gave it
ValuedToken(kind, start, v) ==
    [token |-> Tok(kind, v.value, start, v.s.current), s |-> v.s, panic |-> v.panic]

\* r is the result of next_kind for the token that starts at start
TokenOf(start, r) ==
    IF r.kind = "Error"
    THEN [token |-> Tok("Error", StrValue(<<r.err>>), start, ErrorEnd(r.err, r.s)),
          s |-> r.s,
          panic |-> FALSE]
    ELSE IF r.kind = "WhiteSpace" THEN next_token(r.s)
    ELSE ValuedToken(r.kind, start,
                     parse_token_value(r.s, r.kind, extract_raw_token_value(r.s, start)))

next_token(s) ==
    IF s.next_token_is_dedent > 0
    THEN [token |-> QueuedDedentToken(s),
          s |-> [s EXCEPT !.next_token_is_dedent = @ - 1],
          panic |-> FALSE]
    ELSE TokenOf(s.current, next_kind(s))

\* the fields peek_token saves before, and writes back after, its next_token
PeekRestored ==
    {"current", "current_line", "nesting", "fstring_stack", "start_of_line",
     "inside_fstring_bracket", "next_token_is_dedent"}

\* the lexer after peek_token: before is the state at the call, after the
\* state its next_token left
peek_restore(before, after) ==
    [f \in DOMAIN before |-> IF f \in PeekRestored THEN before[f] ELSE after[f]]

-----------------------------------------------------------------------------
(* Integer widths of the Lexer fields *)

I8 == -128..127
U8 == 0..255
U16 == 0..65535

WrapI8(x) == ((x + 128) % 256) - 128

\* some field left its type's range: a build with overflow checks panics,
\* a build without them wraps
Overflows(s) ==
    \/ s.nesting \notin I8
    \/ s.inside_fstring_bracket \notin I8
    \/ s.next_token_is_dedent \notin U8
    \/ s.current_line \notin U16

Wrapped(s) ==
    [s EXCEPT !.nesting = WrapI8(@),
              !.inside_fstring_bracket = WrapI8(@),
              !.next_token_is_dedent = @ % 256,
              !.current_line = @ % 65536]

-----------------------------------------------------------------------------
(* Parser: the cursor *)

\* The parser state the operators below thread through: the fields of Parser
\* that the statement level reads (lexer, cur_token, prev_token_end, errors)
\* and status: "run", "panic" (the thread unwinds) or "unmodelled" (the
\* source left the part of the grammar this model covers).
ParserOf(lx, tok) ==
    [lexer |-> lx, cur_token |-> tok, prev_token_end |-> 0, errors |-> <<>>,
     status |-> "run", mismatches |-> <<>>]

\* Result<T, ParsingError>: ok with val, or an error in val
POk(p, v) == [p |-> p, ok |-> TRUE, val |-> v]
PErr(p, e) == [p |-> p, ok |-> FALSE, val |-> e]
\* what the ? operator, or an unwinding panic, hands to the caller
Stops(r) == ~r.ok \/ r.p.status # "run"

NoValue == <<>>
Panic(p) == POk([p EXCEPT !.status = "panic"], NoValue)
Unmodelled(p) == POk([p EXCEPT !.status = "unmodelled"], NoValue)

\* ParsingError::InvalidSyntax{msg, span}
InvalidSyntax(msg, start, end) == [msg |-> msg, start |-> start, end |-> end]

\* Node of an expression or a statement
Expr(type, id, elements, start, end) ==
    [type |-> type, id |-> id, elements |-> elements, start |-> start, end |-> end]

cur_kind(p) == p.cur_token.kind
at(p, kind) == cur_kind(p) = kind

\* self.lexer.next_token(), read off next_tokens
LexerNextToken(lx) == next_tokens[lx]

\* the cursor of p after the lexer returned r
Moved(p, r) ==
    [p EXCEPT !.lexer = r.s,
              !.prev_token_end = p.cur_token.end,
              !.cur_token = r.token]

RECURSIVE advance(_)

\* r is what next_token returned to advance()
Advanced(p, r) ==
    IF r.panic THEN [p EXCEPT !.status = "panic"]
    ELSE IF Overflows(r.s) THEN [p EXCEPT !.status = "unmodelled"]
    ELSE IF r.token.kind = "Comment" THEN advance(Moved(p, r))
    ELSE Moved(p, r)

\* advance(): the token after a Comment is taken at once
advance(p) == Advanced(p, LexerNextToken(p.lexer))

bump_any(p) == advance(p)
bump(p, kind) == IF at(p, kind) THEN advance(p) ELSE p

\* r is what the next_token inside peek_token returned
Peeked(p, r) ==
    IF r.panic THEN Panic(p)
    ELSE IF Overflows(r.s) THEN Unmodelled(p)
    ELSE IF r.token.kind = "Error"
    THEN PErr([p EXCEPT !.lexer = peek_restore(p.lexer, r.s)],
              InvalidSyntax(<<"Syntax error">>, p.cur_token.end, p.cur_token.end))
    ELSE POk([p EXCEPT !.lexer = peek_restore(p.lexer, r.s)], r.token.kind)

\* peek_kind(): Ok(kind), or Err when the lexer peeks an Error token
peek_kind(p) == Peeked(p, LexerNextToken(p.lexer))

convert_lexer_error_to_parse(p) ==
    InvalidSyntax(p.cur_token.value.text, p.cur_token.start, p.cur_token.end)

RECURSIVE advance_to_next_line_or_semicolon(_)

\* one turn of the loop below; p1 is p after advance()
SkipToken(p, p1) ==
    IF p.status # "run" THEN p
    ELSE IF at(p, "NewLine") \/ at(p, "SemiColon") THEN p1
    ELSE IF at(p, "Eof") THEN p
    ELSE advance_to_next_line_or_semicolon(p1)

\* while !eat(NewLine) && !eat(SemiColon) && !at(Eof) { advance() }
advance_to_next_line_or_semicolon(p) == SkipToken(p, advance(p))

\* the error expect(kind) returns for the current token of p
ExpectError(p, kind) ==
    IF at(p, "Error") THEN convert_lexer_error_to_parse(p)
    ELSE InvalidSyntax(<<"Expected", kind, "but found", cur_kind(p)>>,
                       p.cur_token.start, p.prev_token_end)

\* the Err of expect: p1 is the parser after the tokens were skipped. The
\* history mismatches keeps the error and where the skipping ended; the
\* code has no such field
ExpectFailed(p1, err) ==
    PErr([p1 EXCEPT !.mismatches =
             Append(@, [err |-> err, cursor |-> p1.cur_token,
                        prev_token_end |-> p1.prev_token_end,
                        status |-> p1.status])],
         err)

expect(p, kind) ==
    IF at(p, "Error") \/ ~at(p, kind)
    THEN ExpectFailed(advance_to_next_line_or_semicolon(p), ExpectError(p, kind))
    ELSE POk(bump_any(p), NoValue)

\* p1 is p after bump_any()
UnexpectedAfterBump(p1, start) ==
    PErr(p1, InvalidSyntax(<<"Expected one of", "but found", cur_kind(p1)>>,
                           start, p1.prev_token_end))

unexpected_token_new(p, start) ==
    IF at(p, "Error")
    THEN PErr(advance_to_next_line_or_semicolon(p), convert_lexer_error_to_parse(p))
    ELSE UnexpectedAfterBump(bump_any(p), start)

-----------------------------------------------------------------------------
(* Parser: targets and the del statement *)

\* a token that can start a target, as the loop of parse_target tests it
StartsTarget(kind) == kind \in {"Identifier", "LeftBrace", "LeftParen", "Mul"}

\* the arm of parse_target for a token that starts no target
InvalidTarget(p) == Panic(p)

\* one element or a Tuple of them
OneOrTuple(p, targets, start) ==
    IF Len(targets) = 1 THEN POk(p, targets[1])
    ELSE POk(p, Expr("Tuple", <<>>, targets, start, p.prev_token_end))

RECURSIVE parse_target(_)
RECURSIVE TargetItems(_, _)
RECURSIVE TargetTail(_, _, _)

\* r is the target; then: if !eat(Comma) { break }
ItemParsed(r, acc) ==
    IF Stops(r) THEN r
    ELSE IF at(r.p, "Comma") THEN TargetItems(advance(r.p), Append(acc, r.val))
    ELSE POk(r.p, Append(acc, r.val))

\* loop { elements.push(parse_target()?); if !eat(Comma) { break } }
TargetItems(p, acc) == ItemParsed(parse_target(p), acc)

\* r is the next target of the loop below
TailTargetParsed(r, targets, start) ==
    IF Stops(r) THEN r ELSE TargetTail(r.p, Append(targets, r.val), start)

\* p1 is the parser after eat(Comma)
TailCommaEaten(p1, targets, start) ==
    IF p1.status # "run" THEN POk(p1, NoValue)
    ELSE IF ~StartsTarget(cur_kind(p1)) THEN OneOrTuple(p1, targets, start)
    ELSE TailTargetParsed(parse_target(p1), targets, start)

\* while eat(Comma) { if cur starts no target { break }; targets.push(parse_target()?) }
TargetTail(p, targets, start) ==
    IF p.status # "run" THEN POk(p, NoValue)
    ELSE IF ~at(p, "Comma") THEN OneOrTuple(p, targets, start)
    ELSE TailCommaEaten(advance(p), targets, start)

\* the Identifier arm after expect(Identifier) returned id
NameExpected(p, id) ==
    IF Stops(id) THEN id
    ELSE POk(id.p, Expr("Name", p.cur_token.value.text, <<>>,
                        p.cur_token.start, id.p.prev_token_end))

\* the Identifier arm after peek_kind() returned pk
NameTarget(p, pk) ==
    IF pk.p.status # "run" THEN pk
    ELSE IF pk.ok /\ pk.val \in {"LeftBrace", "Dot"} THEN Unmodelled(p)
    ELSE NameExpected(p, expect(pk.p, "Identifier"))

\* the LeftBrace arm after expect(RightBrace) returned close
ListClosed(start, items, close) ==
    IF Stops(close) THEN close
    ELSE TargetTail(close.p,
                    <<Expr("List", <<>>, items.val, start, close.p.prev_token_end)>>,
                    start)

\* the LeftBrace arm after its loop returned items
ListTarget(start, items) ==
    IF Stops(items) THEN items
    ELSE ListClosed(start, items, expect(items.p, "RightBrace"))

\* the LeftParen arm after expect(RightParen) returned close
ParenClosed(start, items, close) ==
    IF Stops(close) THEN close
    ELSE TargetTail(close.p,
                    <<(IF Len(items.val) = 1 THEN items.val[1]
                       ELSE Expr("Tuple", <<>>, items.val, start,
                                 close.p.prev_token_end))>>,
                    start)

\* the LeftParen arm after its loop returned items
ParenTarget(start, items) ==
    IF Stops(items) THEN items
    ELSE ParenClosed(start, items, expect(items.p, "RightParen"))

parse_target(p) ==
    IF p.status # "run" THEN POk(p, NoValue)
    ELSE IF at(p, "Identifier") THEN NameTarget(p, peek_kind(p))
    ELSE IF at(p, "LeftBrace")
    THEN ListTarget(p.cur_token.start, TargetItems(bump_any(p), <<>>))
    ELSE IF at(p, "LeftParen")
    THEN ParenTarget(p.cur_token.start, TargetItems(bump_any(p), <<>>))
    ELSE IF at(p, "Mul")
    \* the Mul arm calls parse_target again without consuming the '*':
    \* the recursion never ends and the stack overflows
    THEN Panic(p)
    ELSE InvalidTarget(p)

RECURSIVE TargetListLoop(_, _, _)

\* p1 is the parser after eat(Comma)
ListCommaEaten(p1, targets, start) ==
    IF p1.status # "run" THEN POk(p1, NoValue)
    ELSE IF cur_kind(p1) \in {"NewLine", "Eof"} THEN OneOrTuple(p1, targets, start)
    ELSE TargetListLoop(p1, targets, start)

\* r is the target the loop below parsed
ListTargetParsed(r, targets, start) ==
    IF Stops(r) THEN r
    ELSE IF ~at(r.p, "Comma") THEN OneOrTuple(r.p, Append(targets, r.val), start)
    ELSE ListCommaEaten(advance(r.p), Append(targets, r.val), start)

\* loop { targets.push(parse_target()?);
\*        if !eat(Comma) || cur is NewLine or Eof { break } }
TargetListLoop(p, targets, start) == ListTargetParsed(parse_target(p), targets, start)

parse_target_list(p) == TargetListLoop(p, <<>>, p.cur_token.start)

\* r is the target list of the del statement
Deleted(start, r) ==
    IF Stops(r) THEN r
    ELSE POk(r.p, Expr("Delete", <<>>,
                       IF r.val.type = "Tuple" THEN r.val.elements ELSE <<r.val>>,
                       start, r.p.prev_token_end))

parse_del_statement(p) == Deleted(p.cur_token.start, parse_target_list(bump(p, "Del")))

\* p1 is the parser after bump(Pass)
Passed(start, p1) == POk(p1, Expr("Pass", <<>>, <<>>, start, p1.prev_token_end))

parse_pass_statement(p) == Passed(p.cur_token.start, bump(p, "Pass"))

-----------------------------------------------------------------------------
(* Parser: import *)

\* while at(Dot) | at(Ellipsis): the level of a relative import
RECURSIVE LevelLoop(_, _)
LevelLoop(p, level) ==
    IF p.status = "run" /\ (at(p, "Dot") \/ at(p, "Ellipsis"))
    THEN LevelLoop(bump_any(p), level + (IF at(p, "Dot") THEN 1 ELSE 3))
    ELSE [p |-> p, level |-> level]

RECURSIVE DottedLoop(_, _, _)

\* p1 is the parser behind the Dot: the text of its token joins the module
\* name, and the Result of expect(Identifier) is not looked at
DotEaten(p1, module, level) ==
    DottedLoop(expect(p1, "Identifier").p,
               module \o <<".">> \o p1.cur_token.value.text, level)

\* while eat(Dot)
DottedLoop(p, module, level) ==
    IF p.status = "run" /\ at(p, "Dot")
    THEN DotEaten(advance(p), module, level)
    ELSE POk(p, [module |-> module, level |-> level])

\* l is the parser behind the dots of a relative import: the text of its
\* token starts the module name, and the Result of expect(Identifier) is
\* not looked at
ModuleNamed(l) ==
    DottedLoop(expect(l.p, "Identifier").p, l.p.cur_token.value.text, l.level)

parse_module_name(p) == ModuleNamed(LevelLoop(p, 0))

\* the Alias that parse_alias returns; p1 is the parser behind the name
AliasOf(p1, name, asname, start) ==
    [p |-> p1, val |-> Expr("Alias", name, asname, start, p1.prev_token_end)]

\* p1 is the parser behind As
AsEaten(p1, name, start) ==
    AliasOf(bump(p1, "Identifier"), name, <<p1.cur_token.value.text>>, start)

parse_alias(p, name, start) ==
    IF at(p, "As") THEN AsEaten(advance(p), name, start)
    ELSE AliasOf(p, name, <<>>, start)

RECURSIVE ImportLoop(_, _, _)

ImportOf(p, aliases, start) ==
    POk(p, Expr("Import", <<>>, aliases, start, p.prev_token_end))

\* a is the alias parse_alias returned
AliasParsed(a, start, aliases) ==
    IF a.p.status = "run" /\ at(a.p, "Comma")
    THEN ImportLoop(advance(a.p), start, Append(aliases, a.val))
    ELSE ImportOf(a.p, Append(aliases, a.val), start)

\* r is what parse_module_name returned for the name that starts at node
ModuleParsed(r, node, start, aliases) ==
    IF Stops(r) THEN r
    ELSE AliasParsed(parse_alias(r.p, r.val.module, node), start, aliases)

\* while at(Identifier)
ImportLoop(p, start, aliases) ==
    IF p.status = "run" /\ at(p, "Identifier")
    THEN ModuleParsed(parse_module_name(p), p.cur_token.start, start, aliases)
    ELSE ImportOf(p, aliases, start)

parse_import_statement(p) == ImportLoop(bump(p, "Import"), p.cur_token.start, <<>>)

-----------------------------------------------------------------------------
(* Parser: expressions *)

\* the kinds that start an atom, of those this model covers
ModelledAtoms == {"Identifier", "Integer", "LeftParen"}

\* kinds that start neither an atom nor a prefix operator, lambda, await
NonAtoms ==
    {"Comma", "RightParen", "NewLine", "Eof", "SemiColon", "Indent", "Dedent",
     "Del", "Pass", "Error", "Colon", "Elif", "Else",
     "Or", "And", "BitXor", "LeftShift", "RightShift"}

\* kinds at which none of the productions from parse_expression_2 down to
\* parse_power_expression goes on after its operand, but for parse_or_test,
\* parse_and_test, parse_xor_expr and parse_shift_expr
NoOperator == (ModelledAtoms \cup NonAtoms) \ {"LeftParen"}

\* p1 is the parser after bump_any()
UnexpectedToken(p1, start, kind) ==
    PErr(p1, InvalidSyntax(<<"Unexpected token", kind>>, start, p1.prev_token_end))

unepxted_token(p, start, kind) ==
    IF kind = "Error" THEN PErr(bump_any(p), convert_lexer_error_to_parse(p))
    ELSE UnexpectedToken(bump_any(p), start, kind)

TupleOf(p, elements, start) ==
    POk(p, Expr("Tuple", <<>>, elements, start, p.prev_token_end))

RECURSIVE parse_expression_2(_)
RECURSIVE StarredLoop(_, _, _, _)

\* pk is what peek_kind()? gave parse_named_expression at an Identifier
NamedPeeked(p, pk) ==
    IF Stops(pk) THEN pk
    ELSE IF pk.val = "Walrus" THEN Unmodelled(p)
    ELSE parse_expression_2(pk.p)

parse_named_expression(p) ==
    IF at(p, "Identifier") THEN NamedPeeked(p, peek_kind(p))
    ELSE parse_expression_2(p)

parse_starred_item(p) ==
    IF at(p, "Mul") THEN Unmodelled(p) ELSE parse_named_expression(p)

\* the end of parse_starred_expression: one element and no comma seen is the
\* element itself
StarredDone(p, elements, seen_comma, start) ==
    IF Len(elements) = 1 /\ ~seen_comma THEN POk(p, elements[1])
    ELSE TupleOf(p, elements, start)

\* r is the item after a comma; seen_comma is set once it is pushed
StarredItemParsed(r, elements, start) ==
    IF Stops(r) THEN r ELSE StarredLoop(r.p, Append(elements, r.val), TRUE, start)

\* e is what expect(Comma) returned; a RightParen after the comma breaks
StarredCommaExpected(e, elements, seen_comma, start) ==
    IF Stops(e) THEN e
    ELSE IF at(e.p, "RightParen") THEN StarredDone(e.p, elements, seen_comma, start)
    ELSE StarredItemParsed(parse_starred_item(e.p), elements, start)

\* while !at(Eof) && !at(RightParen) { expect(Comma)?; ... }
StarredLoop(p, elements, seen_comma, start) ==
    IF at(p, "Eof") \/ at(p, "RightParen")
    THEN StarredDone(p, elements, seen_comma, start)
    ELSE StarredCommaExpected(expect(p, "Comma"), elements, seen_comma, start)

parse_starred_expression(p, start, first_elm) ==
    StarredLoop(p, <<first_elm>>, FALSE, start)

\* close is what expect(RightParen) returned after the form r
ParenFormClosed(r, close) == IF Stops(close) THEN close ELSE POk(close.p, r.val)

\* r is what parse_starred_expression returned
ParenForm(r) == IF Stops(r) THEN r ELSE ParenFormClosed(r, expect(r.p, "RightParen"))

\* pk is what peek_kind() gave the test for a generator
ForPeeked(pk, start, first_expr) ==
    IF pk.p.status # "run" THEN pk
    ELSE IF pk.ok /\ pk.val = "For" THEN Unmodelled(pk.p)
    ELSE ParenForm(parse_starred_expression(pk.p, start, first_expr))

\* first is the first expression inside the parentheses
FirstParsed(first, start) ==
    IF Stops(first) THEN first
    ELSE IF at(first.p, "For") THEN Unmodelled(first.p)
    ELSE ForPeeked(peek_kind(first.p), start, first.val)

\* pk is what peek_kind() gave the test for a named expression
WalrusPeeked(pk, start) ==
    IF pk.p.status # "run" THEN pk
    ELSE IF pk.ok /\ pk.val = "Walrus" THEN Unmodelled(pk.p)
    ELSE FirstParsed(parse_expression_2(pk.p), start)

\* p1 is the parser after expect(LeftParen)
ParenOpened(p1, start) ==
    IF p1.status # "run" THEN POk(p1, NoValue)
    ELSE IF at(p1, "RightParen") THEN TupleOf(p1, <<>>, start)
    ELSE IF at(p1, "Identifier") THEN WalrusPeeked(peek_kind(p1), start)
    ELSE IF at(p1, "Mul") THEN Unmodelled(p1)
    ELSE FirstParsed(parse_expression_2(p1), start)

parse_paren_form_or_generator(p) == ParenOpened(bump_any(p), p.cur_token.start)

parse_identifier(p) == NameExpected(p, expect(p, "Identifier"))

\* the arm of parse_atom for a literal; p1 is the parser after bump_any()
ConstantAtom(p1, start, text) ==
    POk(p1, Expr("Constant", text, <<>>, start, p1.prev_token_end))

parse_atom(p) ==
    IF at(p, "LeftParen") THEN parse_paren_form_or_generator(p)
    ELSE IF at(p, "Identifier") THEN parse_identifier(p)
    ELSE ConstantAtom(bump_any(p), p.cur_token.start, p.cur_token.value.text)

\* r is the atom of parse_primary
PrimaryOf(r) ==
    IF Stops(r) THEN r
    ELSE IF cur_kind(r.p) \in {"Dot", "LeftBrace", "LeftParen"} THEN Unmodelled(r.p)
    ELSE r

parse_primary(p) ==
    IF cur_kind(p) \in ModelledAtoms THEN PrimaryOf(parse_atom(p))
    ELSE IF cur_kind(p) \in NonAtoms
    THEN unepxted_token(p, p.cur_token.start, cur_kind(p))
    ELSE Unmodelled(p)

\* r is the primary; the productions above it hand it on unless an operator
\* of theirs follows
AfterPrimary(r) ==
    IF r.p.status # "run" THEN r
    ELSE IF cur_kind(r.p) \notin NoOperator THEN Unmodelled(r.p)
    ELSE r

\* parse_binary_arithmetic_operation and, below it,
\* parse_unary_arithmetric_operation and parse_power_expression
parse_binary_arithmetic_operation(p) ==
    IF p.status # "run" THEN POk(p, NoValue) ELSE AfterPrimary(parse_primary(p))

\* BinOp{op, left, right} and BoolOp{op, values: [left, right]}
OpOf(type, op, left, right, start, end) ==
    Expr(type, <<op>>, <<left, right>>, start, end)

\* r is the right operand of a binary operator
RhsParsed(r, type, op, lhs, start) ==
    IF Stops(r) THEN r
    ELSE POk(r.p, OpOf(type, op, lhs, r.val, start, r.p.prev_token_end))

\* Every production from parse_or_test down to parse_shift_expr starts by
\* calling the next one, so all of them start at the same operand. In the
\* operators named ...From, r is that operand, parsed once, and start is
\* where it starts.

\* parse_shift_expr from its left operand: an if, one operator at most
ShiftExprFrom(r, start) ==
    IF Stops(r) THEN r
    ELSE IF at(r.p, "LeftShift") \/ at(r.p, "RightShift")
    THEN RhsParsed(parse_binary_arithmetic_operation(advance(r.p)), "BinOp",
                   IF at(r.p, "LeftShift") THEN "LShift" ELSE "RShift",
                   r.val, start)
    ELSE r

parse_shift_expr(p) ==
    ShiftExprFrom(parse_binary_arithmetic_operation(p), p.cur_token.start)

\* the while loop over BitAnd is behind AfterPrimary
parse_and_expr(p) == parse_shift_expr(p)

\* r is the left operand of parse_xor_expr: an if, one operator at most
XorLhsParsed(r, start) ==
    IF Stops(r) THEN r
    ELSE IF at(r.p, "BitXor")
    THEN RhsParsed(parse_and_expr(advance(r.p)), "BinOp", "BitXor", r.val, start)
    ELSE r

XorExprFrom(r, start) ==
    IF Stops(r) THEN r ELSE XorLhsParsed(ShiftExprFrom(r, start), start)

parse_xor_expr(p) ==
    XorExprFrom(parse_binary_arithmetic_operation(p), p.cur_token.start)

\* parse_not_test and, below it, parse_comparison and parse_or_expr: Not,
\* the comparison operators and BitOr are behind parse_primary and AfterPrimary
parse_not_test(p) == parse_xor_expr(p)

\* r is the left operand of parse_and_test: an if, one operator at most
AndLhsParsed(r, start) ==
    IF Stops(r) THEN r
    ELSE IF at(r.p, "And")
    THEN RhsParsed(parse_not_test(bump(r.p, "And")), "BoolOp", "And", r.val, start)
    ELSE r

AndTestFrom(r, start) ==
    IF Stops(r) THEN r ELSE AndLhsParsed(XorExprFrom(r, start), start)

RECURSIVE parse_or_test(_)

\* r is the left operand of parse_or_test: the right operand is an or_test
OrLhsParsed(r, start) ==
    IF Stops(r) THEN r
    ELSE IF at(r.p, "Or")
    THEN RhsParsed(parse_or_test(advance(r.p)), "BoolOp", "Or", r.val, start)
    ELSE r

OrTestFrom(r, start) ==
    IF Stops(r) THEN r ELSE OrLhsParsed(AndTestFrom(r, start), start)

parse_or_test(p) ==
    OrTestFrom(parse_binary_arithmetic_operation(p), p.cur_token.start)

\* parse_expression_2 and, below it, parse_conditional_expression: Lambda
\* and If are behind parse_primary and AfterPrimary
parse_expression_2(p) ==
    IF p.status # "run" THEN POk(p, NoValue) ELSE parse_or_test(p)

RECURSIVE ExpressionsLoop(_, _, _)

\* r is the expression after a comma
ExprItemParsed(r, exprs, start) ==
    IF Stops(r) THEN r ELSE ExpressionsLoop(r.p, Append(exprs, r.val), start)

\* p1 is the parser after eat(Comma)
ExprCommaEaten(p1, exprs, start) ==
    IF p1.status # "run" THEN POk(p1, NoValue)
    ELSE IF at(p1, "Eof") THEN TupleOf(p1, exprs, start)
    ELSE ExprItemParsed(parse_expression_2(p1), exprs, start)

\* while eat(Comma) { if at(Eof) { break }; exprs.push(parse_expression_2()?) }
ExpressionsLoop(p, exprs, start) ==
    IF ~at(p, "Comma") THEN TupleOf(p, exprs, start)
    ELSE ExprCommaEaten(advance(p), exprs, start)

\* r is the first expression of parse_expression
FirstExpression(r, start) ==
    IF Stops(r) THEN r
    ELSE IF at(r.p, "Comma") THEN ExpressionsLoop(r.p, <<r.val>>, start)
    ELSE r

parse_expression(p) == FirstExpression(parse_expression_2(p), p.cur_token.start)

\* the kinds that turn the expression into the target of an assignment
AssignKinds ==
    {"Assign", "AddAssign", "SubAssign", "MulAssign", "DivAssign", "IntDivAssign",
     "ModAssign", "PowAssign", "BitAndAssign", "BitOrAssign", "BitXorAssign",
     "ShiftLeftAssign", "ShiftRightAssign", "Colon"}

\* lhs is the expression of the statement
ExpressionParsed(lhs) ==
    IF Stops(lhs) THEN lhs
    ELSE IF cur_kind(lhs.p) \in AssignKinds THEN Unmodelled(lhs.p)
    ELSE POk(lhs.p, Expr("ExpressionStatement", <<>>, <<lhs.val>>,
                         lhs.val.start, lhs.val.end))

parse_assignment_or_expression_statement(p) == ExpressionParsed(parse_expression(p))

-----------------------------------------------------------------------------
(* Parser: statements and parse() *)

\* is_at_compound_statement: the tokens parse_compount_statement dispatches on
is_at_compound_statement(tok) ==
    \/ tok.kind \in {"If", "While", "For", "Try", "With", "Def", "MatrixMul",
                     "Class", "Async"}
    \/ tok.kind = "Identifier" /\ tok.value.text = <<"m", "a", "t", "c", "h">>

\* the simple statements this model does not cover
OtherSimpleStatements ==
    {"Assert", "Return", "Yield", "Raise", "Break", "Continue", "From",
     "Global", "Nonlocal"}

\* the statement ended, or a diagnostic is owed
EndsStatement(kind) == kind \in {"NewLine", "SemiColon", "Eof"}

RECURSIVE EatWhiteSpaceAndComments(_)
EatWhiteSpaceAndComments(p) ==
    IF p.status = "run" /\ (at(p, "WhiteSpace") \/ at(p, "Comment"))
    THEN EatWhiteSpaceAndComments(advance(p))
    ELSE p

\* the message of the diagnostic for a statement that does not end its line
NotEndingMsg == <<"Statement does not end in new line or semicolon">>

\* variant of ErrIfNotEnding: the diagnostic is not recorded
ErrIfNotEndingSilent(p, start) == p

\* p is the parser after white space and comments were eaten
ErrIfNotEnding(p, start) ==
    IF p.status = "run" /\ ~EndsStatement(cur_kind(p))
    THEN [p EXCEPT !.errors =
             Append(@, InvalidSyntax(NotEndingMsg, start, p.prev_token_end))]
    ELSE p

err_if_statement_not_ending_in_new_line_or_semicolon(p0, start) ==
    ErrIfNotEnding(EatWhiteSpaceAndComments(p0), start)

\* r is the statement parse_simple_statement parsed
SimpleParsed(r) ==
    IF Stops(r) THEN r
    ELSE POk(err_if_statement_not_ending_in_new_line_or_semicolon(r.p, r.val.start),
             r.val)

parse_simple_statement(p) ==
    SimpleParsed(
        IF at(p, "Pass") THEN parse_pass_statement(p)
        ELSE IF at(p, "Del") THEN parse_del_statement(p)
        ELSE IF at(p, "Import") THEN parse_import_statement(p)
        ELSE IF cur_kind(p) \in OtherSimpleStatements THEN Unmodelled(p)
        ELSE IF at(p, "Identifier") /\ p.cur_token.value.text = <<"t", "y", "p", "e">>
        THEN Unmodelled(p)
        ELSE IF at(p, "Indent") THEN unexpected_token_new(p, p.cur_token.start)
        ELSE parse_assignment_or_expression_statement(p))

-----------------------------------------------------------------------------
(* Parser: suites and the if statement *)

RECURSIVE parse_if_statement(_)
RECURSIVE parse_suite(_)
RECURSIVE BlockLoop(_, _)
RECURSIVE ConsumeLoop(_, _)
RECURSIVE StatementListLoop(_, _)
RECURSIVE ElifLoop(_, _)

\* ast::If
IfOf(test, body, orelse, start, end) ==
    [type |-> "If", test |-> test, body |-> body, orelse |-> orelse,
     start |-> start, end |-> end]

\* If::update_orelse: the orelse of the node is replaced
update_orelse(val, other_or_else) == [val EXCEPT !.orelse = other_or_else]

ConsumeLoop(p, consumed) ==
    IF p.status = "run" /\ (at(p, "WhiteSpace") \/ at(p, "NewLine"))
    THEN ConsumeLoop(advance(p), TRUE)
    ELSE [p |-> p, consumed |-> consumed]

consume_whitespace_and_newline(p) == ConsumeLoop(p, FALSE)

\* r is a statement of parse_statement_list
ListStatementParsed(r, stmts) ==
    IF Stops(r) THEN r ELSE StatementListLoop(r.p, Append(stmts, r.val))

StatementListLoop(p, stmts) ==
    IF at(p, "SemiColon")
    THEN ListStatementParsed(parse_simple_statement(advance(p)), stmts)
    ELSE POk(p, stmts)

parse_statement_list(p) == ListStatementParsed(parse_simple_statement(p), <<>>)

parse_compount_statement(p) ==
    IF at(p, "If") THEN parse_if_statement(p) ELSE Unmodelled(p)

\* r is the compound statement of parse_statement
CompoundParsed(r) == IF Stops(r) THEN r ELSE POk(r.p, <<r.val>>)

parse_statement(p) ==
    IF is_at_compound_statement(p.cur_token)
    THEN CompoundParsed(parse_compount_statement(p))
    ELSE parse_statement_list(p)

\* r is the statements of one turn of the block loop of parse_suite
BlockStatementParsed(r, stmts) ==
    IF Stops(r) THEN r ELSE BlockLoop(r.p, stmts \o r.val)

\* c is what consume_whitespace_and_newline returned
BlockConsumed(c, stmts) ==
    IF c.consumed THEN BlockLoop(c.p, stmts)
    ELSE BlockStatementParsed(parse_statement(c.p), stmts)

BlockLoop(p, stmts) ==
    IF p.status # "run" THEN POk(p, stmts)
    ELSE IF at(p, "Dedent") THEN POk(advance(p), stmts)
    ELSE IF at(p, "Eof") THEN POk(p, stmts)
    ELSE IF at(p, "Comment") THEN BlockLoop(advance(p), stmts)
    ELSE BlockConsumed(consume_whitespace_and_newline(p), stmts)

\* r is what expect(Indent) returned
IndentExpected(r) == IF Stops(r) THEN r ELSE BlockLoop(r.p, <<>>)

\* r is the statements of the suite, of either form
SuiteParsed(r) == IF Stops(r) THEN r ELSE POk(bump(r.p, "NewLine"), r.val)

parse_suite(p) ==
    SuiteParsed(
        IF at(p, "NewLine")
        THEN IndentExpected(
                 expect(consume_whitespace_and_newline(advance(p)).p, "Indent"))
        ELSE parse_statement_list(p))

\* the locals of parse_if_statement: orelse is the Option<If>, a sequence of
\* at most one node
IfLocals(start, test) ==
    [start |-> start, test |-> test, body |-> <<>>, orelse |-> <<>>,
     elif_start |-> 0, elif_test |-> NoValue]

IfDone(p, c, single_else_body) ==
    POk(p, IfOf(c.test, c.body,
                IF c.orelse # <<>> THEN c.orelse ELSE single_else_body,
                c.start, p.prev_token_end))

\* r is the suite of the else clause
ElseSuiteParsed(r, c) ==
    IF Stops(r) THEN r
    ELSE IF c.orelse # <<>>
    THEN IfDone(r.p, [c EXCEPT !.orelse = <<update_orelse(@[1], r.val)>>], <<>>)
    ELSE IfDone(r.p, c, r.val)

ElseColonExpected(r, c) ==
    IF Stops(r) THEN r ELSE ElseSuiteParsed(parse_suite(r.p), c)

ElsePart(p, c) ==
    IF p.status # "run" THEN POk(p, NoValue)
    ELSE IF at(p, "Else") THEN ElseColonExpected(expect(advance(p), "Colon"), c)
    ELSE IfDone(p, c, <<>>)

\* the If node of one elif clause; p is the parser after its suite
ElifValue(p, c, body) == IfOf(c.elif_test, body, <<>>, c.elif_start, p.prev_token_end)

\* orelse after one elif clause: the node held in orelse is the one updated
ElifJoined(orelse, if_value) ==
    IF orelse # <<>> THEN <<update_orelse(orelse[1], <<if_value>>)>>
    ELSE <<if_value>>

\* r is the suite of an elif clause
ElifSuiteParsed(r, c) ==
    IF Stops(r) THEN r
    ELSE ElifLoop(r.p, [c EXCEPT !.orelse = ElifJoined(@, ElifValue(r.p, c, r.val))])

ElifColonExpected(r, c) ==
    IF Stops(r) THEN r ELSE ElifSuiteParsed(parse_suite(r.p), c)

\* r is the test of an elif clause
ElifTestParsed(r, c) ==
    IF Stops(r) THEN r
    ELSE ElifColonExpected(expect(r.p, "Colon"), [c EXCEPT !.elif_test = r.val])

ElifLoop(p, c) ==
    IF p.status = "run" /\ at(p, "Elif")
    THEN ElifTestParsed(parse_named_expression(bump(p, "Elif")),
                        [c EXCEPT !.elif_start = p.cur_token.start])
    ELSE ElsePart(p, c)

\* r is the suite of the if clause
IfSuiteParsed(r, c) ==
    IF Stops(r) THEN r ELSE ElifLoop(r.p, [c EXCEPT !.body = r.val])

IfColonExpected(r, c) ==
    IF Stops(r) THEN r ELSE IfSuiteParsed(parse_suite(r.p), c)

\* r is the test of the if clause
IfTestParsed(r, start) ==
    IF Stops(r) THEN r
    ELSE IfColonExpected(expect(r.p, "Colon"), IfLocals(start, r.val))

\* r is what expect(If) returned
IfExpected(r, start) ==
    IF Stops(r) THEN r ELSE IfTestParsed(parse_named_expression(r.p), start)

parse_if_statement(p) == IfExpected(expect(p, "If"), p.cur_token.start)

\* variant of StatementParsed: the loop goes on after an error
StatementParsedResilient(r) ==
    IF r.p.status # "run" THEN [p |-> r.p, pushed |-> <<>>, stop |-> TRUE]
    ELSE IF r.ok THEN [p |-> r.p, pushed |-> <<r.val>>, stop |-> FALSE]
    ELSE [p |-> [r.p EXCEPT !.errors = Append(@, r.val)],
          pushed |-> <<>>, stop |-> FALSE]

\* r is the statement of this turn of the loop of parse()
StatementParsed(r) ==
    IF r.p.status # "run" THEN [p |-> r.p, pushed |-> <<>>, stop |-> TRUE]
    ELSE IF r.ok THEN [p |-> r.p, pushed |-> <<r.val>>, stop |-> FALSE]
    ELSE [p |-> [r.p EXCEPT !.errors = Append(@, r.val)],
          pushed |-> <<>>, stop |-> TRUE]

\* one turn of the while loop of parse(): stop is the break
ParseLoopBody(p) ==
    IF at(p, "Comment") \/ at(p, "NewLine")
    THEN [p |-> advance(p), pushed |-> <<>>, stop |-> FALSE]
    ELSE StatementParsed(IF is_at_compound_statement(p.cur_token)
                         THEN parse_compount_statement(p)
                         ELSE parse_simple_statement(p))

-----------------------------------------------------------------------------
(* Symbol table: SymbolTable, SymbolTableScope, SymbolTableNode *)

\* Option::None of a scope id and of a position
NoId == -1
NoPosition == -1

\* a Declaration: the start of declaration_path.node, and what else tells
\* it from another one: serial, the number of the add_symbol call it came with
Declaration(start, serial) == [start |-> start, serial |-> serial]

SymbolTableNode(name, declarations) == [name |-> name, declarations |-> declarations]

\* Option::None of a node and of a declaration
NoNode == SymbolTableNode("", <<>>)
NoDeclaration == Declaration(-1, -1)

\* HashMap::new()
NoSymbols == [n \in {} |-> NoNode]

SymbolTableScope(id, type, name, start_pos, symbols, parent) ==
    [id |-> id, symbol_table_type |-> type, name |-> name, start_pos |-> start_pos,
     symbols |-> symbols, parent |-> parent]

\* SymbolTableScope::new; id is what get_id() returned
SymbolTableScopeNew(id, type, name, start_line_number) ==
    SymbolTableScope(id, type, name, start_line_number, NoSymbols, NoId)

BuiltinNames == {"list", "tuple", "set", "dict"}

\* SymbolTable::global(), the first two calls of get_id()
global ==
    [scopes |->
        <<SymbolTableScope(0, "BUILTIN", "builtins", 0,
                           [n \in BuiltinNames |->
                               SymbolTableNode(n, <<Declaration(0, 0)>>)],
                           NoId),
          SymbolTableScope(1, "Module", "global", 0, NoSymbols, 0)>>,
     all_scopes |-> <<>>]

current_scope(t) == Last(t.scopes)

\* scopes.iter().filter(Module).last()
global_scope(t) ==
    t.scopes[CHOOSE i \in 1..Len(t.scopes) :
                /\ t.scopes[i].symbol_table_type = "Module"
                /\ \A j \in (i + 1)..Len(t.scopes) :
                      t.scopes[j].symbol_table_type # "Module"]

\* the index in a sequence of the last of the indices hits, 0 for None
LastIndex(hits) == IF hits = {} THEN 0 ELSE CHOOSE i \in hits : \A j \in hits : j <= i

\* all_scopes.iter().filter(start_pos < pos).last(), as an index of all_scopes
innermost_scope(t, pos) ==
    LastIndex({i \in 1..Len(t.all_scopes) : t.all_scopes[i].start_pos < pos})

\* all_scopes.iter().filter(id == parent_id).last(), as an index of all_scopes
ScopeById(t, parent_id) ==
    LastIndex({i \in 1..Len(t.all_scopes) : t.all_scopes[i].id = parent_id})

\* HashMap::get
get(symbols, name) == IF name \in DOMAIN symbols THEN symbols[name] ELSE NoNode

\* the look into the current scope that ends lookup_in_scope
LookupInCurrent(t, name) == get(current_scope(t).symbols, name)

\* the while loop of lookup_in_scope; i is the index of the scope, 0 for None
RECURSIVE LookupFrom(_, _, _)
LookupFrom(t, name, i) ==
    IF i = 0 THEN LookupInCurrent(t, name)
    ELSE IF name \in DOMAIN t.all_scopes[i].symbols
    THEN t.all_scopes[i].symbols[name]
    ELSE IF t.all_scopes[i].parent = NoId THEN LookupInCurrent(t, name)
    ELSE LookupFrom(t, name, ScopeById(t, t.all_scopes[i].parent))

\* NoNode is None
lookup_in_scope(t, name, position) ==
    IF position = NoPosition THEN LookupInCurrent(t, name)
    ELSE LookupFrom(t, name, innermost_scope(t, position))

enter_scope(t, new_scope) == [t EXCEPT !.scopes = Append(@, new_scope)]

\* variant of exit_scope that archives the scope in front of the others
exit_scope_to_front(t) ==
    [t EXCEPT !.scopes = Front(@), !.all_scopes = <<Last(t.scopes)>> \o @]

exit_scope(t) ==
    [t EXCEPT !.scopes = Front(@), !.all_scopes = Append(@, Last(t.scopes))]

\* symbol_node.declarations.extend(existing_symbol.declarations.clone())
Extended(symbol_node, existing_symbol) ==
    [symbol_node EXCEPT !.declarations = @ \o existing_symbol.declarations]

\* the node add_symbol inserts for symbol_node
Merged(symbols, symbol_node) ==
    IF symbol_node.name \in DOMAIN symbols
    THEN Extended(symbol_node, symbols[symbol_node.name])
    ELSE symbol_node

\* HashMap::insert
insert(symbols, node) ==
    [n \in DOMAIN symbols \cup {node.name} |->
        IF n = node.name THEN node ELSE symbols[n]]

\* variant of add_symbol that adds to the first scope of the stack
add_symbol_to_first(t, symbol_node) ==
    [t EXCEPT !.scopes[1].symbols = insert(@, Merged(@, symbol_node))]

add_symbol(t, symbol_node) ==
    [t EXCEPT !.scopes[Len(t.scopes)].symbols = insert(@, Merged(@, symbol_node))]

\* Vec::last
LastOrNone(declarations) ==
    IF declarations = <<>> THEN NoDeclaration ELSE Last(declarations)

last_declaration(node) == LastOrNone(node.declarations)

\* variant of StartsBefore: a declaration at the position passes too
StartsAtOrBefore(decl, position) == decl.start <= position

\* the filter of declaration_until_position
StartsBefore(decl, position) == decl.start < position

\* sort_by is stable: d goes behind what does not start after it
InsertByStart(sorted, d) ==
    LET k == Cardinality({i \in 1..Len(sorted) : sorted[i].start <= d.start})
    IN  SubSeq(sorted, 1, k) \o <<d>> \o SubSeq(sorted, k + 1, Len(sorted))

RECURSIVE SortedByStart(_)
SortedByStart(ds) ==
    IF ds = <<>> THEN <<>> ELSE InsertByStart(SortedByStart(Front(ds)), Last(ds))

declaration_until_position(node, position) ==
    LastOrNone(SortedByStart(SelectSeq(node.declarations,
                                       LAMBDA d : StartsBefore(d, position))))

\* a query and its result; NoAnswer before the first query and after a change
Answer(op, name, position, node, declaration) ==
    [op |-> op, name |-> name, position |-> position, node |-> node,
     declaration |-> declaration]

NoAnswer == Answer("none", "", NoPosition, NoNode, NoDeclaration)

\* the caller before its first call: position 1 of the program
NewWalk ==
    [cursor |-> 1, entered |-> 0, serial |-> 0,
     enclosing |-> [i \in {} |-> 0], ends |-> [i \in {} |-> 0]]

-----------------------------------------------------------------------------
(* The sources the model runs on *)

IndentAlphabet == {SP, LF, "a"}
BlankAlphabet == {SP, LF, CR, "a"}
StrAlphabet == {DQ, BSL, "a"}
NestAlphabet == {"(", ")", LF, "a"}
MixedAlphabet == {"0", "b", "2", "!", SP, LF}
FStrAlphabet == {"f", DQ, "{", "}", "a"}

Sources ==
    Strings(IndentAlphabet, MaxIndentLen)
    \cup Strings(BlankAlphabet, MaxBlankLen)
    \cup Strings(StrAlphabet, MaxStrLen)
    \cup Strings(NestAlphabet, MaxNestLen)
    \cup Strings(MixedAlphabet, MaxMixedLen)
    \cup Strings(FStrAlphabet, MaxFStrLen)
    \cup {[i \in 1..DeepLen |-> "("]}

\* the lexemes the sources of the parser specification are made of
Lexemes ==
    {<<"d", "e", "l">>, <<"p", "a", "s", "s">>, <<"a">>, <<"1">>, <<SP>>, <<LF>>,
     <<",">>, <<"(">>, <<")">>, <<";">>, <<"*">>}

RECURSIVE Concat(_)
Concat(ws) == IF ws = <<>> THEN <<>> ELSE ws[1] \o Concat(Tail(ws))

\* parenthesized forms with one item, with and without a comma after it
ParenSources ==
    {<<"(", "a", ")">>, <<"(", "a", ",", ")">>, <<"(", "a", ",", LF, ")">>,
     <<"(", "a", ",", "a", ")">>, <<"(", "a", ",", "a", ",", ")">>}

\* import statements: import, a space, and then some of these lexemes
ImportLexemes == {<<"a">>, <<".">>, <<"1">>, <<",">>, <<LF>>}

ImportSources ==
    {<<"i", "m", "p", "o", "r", "t", SP>> \o Concat(ws) :
        ws \in Strings(ImportLexemes, MaxImportLexemes)}

\* if statements of up to MaxElifs elif clauses with or without an else
\* clause, each clause with its own name as test and as body, the bodies all
\* on the line of the clause or all in an indented block
MaxElifs == 3
ClauseName(k) == <<"b", "c", "d", "g", "h">>[k]
SuiteOf(name, form) ==
    IF form = "inline" THEN <<name, LF>> ELSE <<LF, SP, name, LF>>
ElifClause(k, form) ==
    <<"e", "l", "i", "f", SP, ClauseName(k), ":">> \o SuiteOf(ClauseName(k), form)
RECURSIVE ElifClauses(_, _)
ElifClauses(n, form) ==
    IF n = 0 THEN <<>> ELSE ElifClauses(n - 1, form) \o ElifClause(n, form)
ElseClause(form) == <<"e", "l", "s", "e", ":">> \o SuiteOf("z", form)
IfSource(n, has_else, form) ==
    <<"i", "f", SP, "a", ":">> \o SuiteOf("a", form) \o ElifClauses(n, form)
        \o (IF has_else THEN ElseClause(form) ELSE <<>>)
IfSources ==
    {IfSource(n, has_else, form) :
        n \in 0..MaxElifs, has_else \in BOOLEAN, form \in {"inline", "block"}}

\* up to MaxOperands names joined by one binary operator
MaxOperands == 4
OperandName(k) == <<"a", "b", "c", "d", "g", "h">>[k]
Spelling ==
    [op \in {"Or", "And", "BitXor", "LeftShift", "RightShift"} |->
        CASE op = "Or" -> <<SP, "o", "r", SP>>
          [] op = "And" -> <<SP, "a", "n", "d", SP>>
          [] op = "BitXor" -> <<"^">>
          [] op = "LeftShift" -> <<"<", "<">>
          [] op = "RightShift" -> <<">", ">">>]
RECURSIVE OperatorChain(_, _)
OperatorChain(op, n) ==
    IF n = 1 THEN <<OperandName(1)>>
    ELSE OperatorChain(op, n - 1) \o Spelling[op] \o <<OperandName(n)>>
\* two operators in turn: a op1 b op2 c
TwoOperators(op1, op2) ==
    OperatorChain(op1, 2) \o Spelling[op2] \o <<OperandName(3)>>
OperatorSources ==
    {OperatorChain(op, n) : op \in DOMAIN Spelling, n \in 2..MaxOperands}
        \cup {TwoOperators(op1, op2) : op1, op2 \in DOMAIN Spelling}

ParserSources ==
    {Concat(ws) : ws \in Strings(Lexemes, MaxLexemes)} \cup ParenSources
        \cup ImportSources \cup IfSources \cup OperatorSources

NoToken == Tok("NoToken", NoneValue, 0, 0)

\* no Parser exists yet
NoParser ==
    [pc |-> "idle", cur_token |-> NoToken, prev_token_end |-> 0, errors |-> <<>>,
     body |-> <<>>, mismatches |-> <<>>]

\* the lexer states that next_token and peek_token lead to from those of
\* frontier, done being the states already seen
RECURSIVE LexerStates(_, _)

\* the states one call leads to from s, r being what next_token returns in s
StatesAfter(s, r) == {r.s, peek_restore(s, r.s)}

LexerStates(done, frontier) ==
    IF frontier = {} THEN done
    ELSE LexerStates(done \cup frontier,
                     UNION {StatesAfter(s, next_token(s)) : s \in frontier}
                        \ (done \cup frontier))

\* next_token tabulated over the lexer states of this source
TokenTable == [s \in LexerStates({}, {NewLexer}) |-> next_token(s)]

InitOn(S) ==
    /\ source \in S
    /\ lexer = NewLexer
    /\ token = NoToken
    /\ last_op = "new"
    /\ tokens = <<>>
    /\ parser = NoParser
    /\ next_tokens = <<>>
    /\ panicked = FALSE
    /\ symbol_table = global
    /\ COUNTER = 2
    /\ walk = NewWalk
    /\ answer = NoAnswer

\* Lexer::new(source)
Init == InitOn(Sources)

InitParser == InitOn(ParserSources)

-----------------------------------------------------------------------------
(* A client of the lexer *)

EofCount == Cardinality({i \in 1..Len(tokens) : tokens[i].kind = "Eof"})

\* the caller goes on calling the lexer until it has seen Eof MaxEofCalls
\* times after the first
Running == ~panicked /\ parser.pc = "idle" /\ EofCount <= MaxEofCalls

\* next_token returned r, or panicked
Returned(r) ==
    \E overflow_checks \in (IF Overflows(r.s) THEN BOOLEAN ELSE {FALSE}) :
        IF r.panic \/ overflow_checks
        THEN /\ panicked' = TRUE
             /\ UNCHANGED <<lexer, token, last_op, tokens>>
        ELSE /\ lexer' = Wrapped(r.s)
             /\ token' = r.token
             /\ last_op' = "next"
             /\ tokens' = Append(tokens, r.token)
             /\ UNCHANGED panicked

\* lexer.next_token()
NextToken ==
    /\ Running
    /\ Returned(next_token(lexer))
    /\ UNCHANGED <<source, next_tokens, parser, symvars>>

\* peek_token got r from its next_token, or panicked
PeekReturned(r) ==
    \E overflow_checks \in (IF Overflows(r.s) THEN BOOLEAN ELSE {FALSE}) :
        IF r.panic \/ overflow_checks
        THEN /\ panicked' = TRUE
             /\ UNCHANGED <<lexer, token, last_op>>
        ELSE /\ lexer' = peek_restore(lexer, Wrapped(r.s))
             /\ token' = r.token
             /\ last_op' = "peek"
             /\ UNCHANGED panicked

\* lexer.peek_token()
PeekToken ==
    /\ Running
    /\ PeekReturned(next_token(lexer))
    /\ UNCHANGED <<source, next_tokens, tokens, parser, symvars>>

Next == NextToken \/ PeekToken

\* a client that uses next_token and peek_token in any order
Spec == Init /\ [][Next]_vars

\* a client that only calls next_token, as the lexer's tests do
SpecLex == Init /\ [][NextToken]_vars

-----------------------------------------------------------------------------
(* Parser::new and Parser::parse *)

\* the threaded parser state of the Parser in the variables
Threaded ==
    [lexer |-> lexer, cur_token |-> parser.cur_token,
     prev_token_end |-> parser.prev_token_end, errors |-> parser.errors,
     status |-> "run", mismatches |-> parser.mismatches]

\* the variables after a step that left the threaded state p
Store(p, pc, body) ==
    IF p.status = "panic"
    THEN /\ panicked' = TRUE
         /\ UNCHANGED <<lexer, parser>>
    ELSE /\ lexer' = p.lexer
         /\ parser' = [pc |-> IF p.status = "unmodelled" THEN "unmodelled" ELSE pc,
                       cur_token |-> p.cur_token,
                       prev_token_end |-> p.prev_token_end,
                       errors |-> p.errors,
                       body |-> body,
                       mismatches |-> p.mismatches]
         /\ UNCHANGED panicked

\* the Parser with the first token r of the lexer
FirstToken(r) ==
    [ParserOf(r.s, r.token) EXCEPT
        !.status = IF r.panic THEN "panic"
                   ELSE IF Overflows(r.s) THEN "unmodelled" ELSE "run"]

\* Parser::new(source, path): the first token is read
ParserNew ==
    /\ ~panicked
    /\ parser.pc = "idle"
    /\ tokens = <<>>
    /\ next_tokens' = TokenTable
    /\ Store(FirstToken(next_token(lexer)), "parsing", <<>>)
    /\ UNCHANGED <<source, token, last_op, tokens, symvars>>

\* the variables after the turn b of the loop
StoreTurn(b) ==
    Store(b.p, IF b.stop THEN "stopped" ELSE "parsing", parser.body \o b.pushed)

\* one turn of the loop of parse()
ParseStep ==
    /\ ~panicked
    /\ parser.pc = "parsing"
    /\ parser.cur_token.kind # "Eof"
    /\ StoreTurn(ParseLoopBody(Threaded))
    /\ UNCHANGED <<source, next_tokens, token, last_op, tokens, symvars>>

\* parse() returns the Module
ParseReturn ==
    /\ ~panicked
    /\ \/ parser.pc = "parsing" /\ parser.cur_token.kind = "Eof"
       \/ parser.pc = "stopped"
    /\ parser' = [parser EXCEPT !.pc = "done"]
    /\ UNCHANGED <<source, next_tokens, lexer, token, last_op, tokens, panicked,
                   symvars>>

NextParser == ParserNew \/ ParseStep \/ ParseReturn

\* Parser::new(source).parse()
SpecParser == InitParser /\ [][NextParser]_vars

-----------------------------------------------------------------------------
(* A caller that builds a symbol table *)

Names == {"x", "y"}
ScopeTypes == {"Function", "Class"}

\* m with k mapped to v
With(m, k, v) == [i \in DOMAIN m \cup {k} |-> IF i = k THEN v ELSE m[i]]

\* enter_scope(SymbolTableScope::new(type, name, start)) at the caller's position
EnterScope ==
    /\ walk.entered < MaxScopes
    /\ \E type \in ScopeTypes :
          symbol_table' =
              enter_scope(symbol_table,
                          SymbolTableScopeNew(COUNTER, type, "scope", walk.cursor))
    /\ COUNTER' = COUNTER + 1
    /\ walk' = [walk EXCEPT !.cursor = @ + 1,
                            !.entered = @ + 1,
                            !.enclosing = With(@, COUNTER, current_scope(symbol_table).id)]
    /\ answer' = NoAnswer
    /\ UNCHANGED lexvars

\* exit_scope() of a scope the caller entered
ExitScope ==
    /\ Len(symbol_table.scopes) > 2
    /\ symbol_table' = exit_scope(symbol_table)
    /\ walk' = [walk EXCEPT !.cursor = @ + 1,
                            !.ends = With(@, current_scope(symbol_table).id, walk.cursor)]
    /\ answer' = NoAnswer
    /\ UNCHANGED <<COUNTER, lexvars>>

\* add_symbol of a node with one declaration
AddSymbol ==
    /\ walk.serial < MaxDecls
    /\ \E name \in Names, start \in 0..MaxStart :
          symbol_table' =
              add_symbol(symbol_table,
                         SymbolTableNode(name, <<Declaration(start, walk.serial + 1)>>))
    /\ walk' = [walk EXCEPT !.serial = @ + 1]
    /\ answer' = NoAnswer
    /\ UNCHANGED <<COUNTER, lexvars>>

\* lookup_in_scope(LookupSymbolRequest { name, position }), the position
\* None or one the caller has reached. A query leaves the table as it is,
\* so a second query in a row reaches nothing the first does not: the
\* caller makes one query between two changes
LookupInScope ==
    /\ answer = NoAnswer
    /\ \E name \in Names, position \in {NoPosition} \cup 1..walk.cursor :
          answer' = Answer("lookup_in_scope", name, position,
                           lookup_in_scope(symbol_table, name, position),
                           NoDeclaration)
    /\ UNCHANGED <<symbol_table, COUNTER, walk, lexvars>>

\* declaration_until_position(position) on a node of the current scope
DeclarationUntilPosition ==
    /\ answer = NoAnswer
    /\ \E name \in Names \cap DOMAIN current_scope(symbol_table).symbols,
          position \in 0..(MaxStart + 1) :
          answer' = Answer("declaration_until_position", name, position,
                           current_scope(symbol_table).symbols[name],
                           declaration_until_position(
                               current_scope(symbol_table).symbols[name], position))
    /\ UNCHANGED <<symbol_table, COUNTER, walk, lexvars>>

NextSymbols ==
    EnterScope \/ ExitScope \/ AddSymbol \/ LookupInScope \/ DeclarationUntilPosition

\* SymbolTable::global() and then any such caller
SpecSymbols == InitOn({<<>>}) /\ [][NextSymbols]_vars

\* get_id() calls so far that did not come from this symbol table
OtherIds == COUNTER - 2 - walk.entered

\* SymbolTableScope::new in the pipeline of another file, on this or on
\* another thread: get_id() on the one static COUNTER of the process
OtherPipelineNewScope ==
    /\ OtherIds < MaxOtherIds
    /\ COUNTER' = COUNTER + 1
    /\ UNCHANGED <<symbol_table, walk, answer, lexvars>>

NextPipelines == EnterScope \/ ExitScope \/ AddSymbol \/ OtherPipelineNewScope

\* the caller of one symbol table among the pipelines of other files
SpecPipelines == InitOn({<<>>}) /\ [][NextPipelines]_vars

-----------------------------------------------------------------------------
(* Vocabulary of the properties *)

CountKind(k) == Cardinality({i \in 1..Len(tokens) : tokens[i].kind = k})
HasKind(k) == \E i \in 1..Len(tokens) : tokens[i].kind = k
OverAlphabet(A) == \A i \in 1..Len(source) : source[i] \in A

\* this step is a call of next_token (it returned a token, or it panicked)
NextTokenCalled == tokens' # tokens \/ (panicked' /\ ~panicked)

\* the next call of next_token starts a line
AtLineStart == tokens = <<>> \/ Last(tokens).kind = "NewLine"

\* the columns of the spaces and tabs that start at offset i of the source
RECURSIVE IndentWidth(_)
IndentWidth(i) ==
    IF CharAt(i) = SP THEN 1 + IndentWidth(i + 1)
    ELSE IF CharAt(i) = TAB THEN TabWidth + IndentWidth(i + 1)
    ELSE 0

UnindentError == <<"UnindentDoesNotMatchAnyOuterIndentationLevel">>

\* every line that starts with spaces or tabs has something else on it
NoWhitespaceOnlyLine ==
    \A i \in 1..Len(source) :
        source[i] \in {SP, TAB}
            => i < Len(source) /\ source[i + 1] \notin LineTerminators

-----------------------------------------------------------------------------
(* C1 *)

\* C1: parse() never panics: whatever the source, the parser thread does not
\* unwind; every failure ends up as a ParsingError in parser.errors.
C1_ParseNeverPanics == ~panicked

-----------------------------------------------------------------------------
(* C2 *)

\* C2: peek_token is side-effect free: a peek_token call leaves every field
\* of the lexer as it was, and the next_token call that follows a peek_token
\* returns the token the peek returned.
C2_PeekIsSideEffectFree ==
    [][/\ (last_op' = "peek" => lexer' = lexer)
       /\ (last_op = "peek" /\ tokens' # tokens => token' = token)]_vars

-----------------------------------------------------------------------------
(* C3 *)

\* the source starts with a line that is neither blank nor indented
FirstLineNotIndented ==
    source # <<>> /\ source[1] \notin ({SP, TAB} \cup LineTerminators)

\* indentation the lexer accepted: no whitespace-only line, and a first line
\* that is not indented
ValidIndentation ==
    /\ ~HasKind("Error")
    /\ NoWhitespaceOnlyLine
    /\ FirstLineNotIndented

\* C3: for a source with valid indentation, ending with a line terminator or
\* not, when Eof is returned the stream holds as many Dedent as Indent tokens
\* and the indent stack is [0].
C3_DedentsMatchIndentsAtEof ==
    (HasKind("Eof") /\ ValidIndentation /\ OverAlphabet(IndentAlphabet))
        => /\ CountKind("Dedent") = CountKind("Indent")
           /\ lexer.indent_stack = <<0>>

-----------------------------------------------------------------------------
(* C4 *)

\* the line at the cursor is indented less than the top of the indent stack,
\* to a column that is on no level of the stack
UnmatchedUnindent ==
    LET w == IndentWidth(lexer.current)
    IN  /\ w < Last(lexer.indent_stack)
        /\ \A i \in 1..Len(lexer.indent_stack) : lexer.indent_stack[i] # w

\* C4: when a line is indented less than the top of the indent stack and to
\* no level of the stack, the next_token call at the start of that line
\* returns the Error token UnindentDoesNotMatchAnyOuterIndentationLevel: it
\* does not panic, returns no Dedent or Indent first, and leaves the indent
\* stack as it was.
C4_UnmatchedUnindentIsAnError ==
    [][(AtLineStart /\ UnmatchedUnindent /\ NextTokenCalled)
          => /\ ~panicked'
             /\ token'.kind = "Error"
             /\ token'.value.text = UnindentError
             /\ lexer'.indent_stack = lexer.indent_stack]_vars

\* an unindent error was returned inside a block
C4_Witness ==
    /\ last_op = "next"
    /\ token.kind = "Error"
    /\ token.value.text = UnindentError
    /\ Len(lexer.indent_stack) >= 2

-----------------------------------------------------------------------------
(* C5 *)

\* C5: the tokens next_token returns have spans inside the source, in order
\* and without overlap: start <= end <= source length, and every start is at
\* or after the end of the token before.
C5_SpansOrdered ==
    \A i \in 1..Len(tokens) :
        /\ tokens[i].start <= tokens[i].end
        /\ tokens[i].end <= Len(source)
        /\ i > 1 => tokens[i].start >= tokens[i - 1].end

\* a stream where a name follows a queued Dedent, a token of width zero
C5_Witness ==
    \E i \in 1..Len(tokens) :
        /\ tokens[i].kind = "Dedent"
        /\ tokens[i].value.tag = "None"
        /\ tokens[i].start = tokens[i].end
        /\ i < Len(tokens)
        /\ tokens[i + 1].kind = "Identifier"

-----------------------------------------------------------------------------
(* C6 *)

\* what is left for the lexer to do: input, open indentation levels and
\* queued Dedents
Pending(lx) ==
    2 * (Len(source) - lx.current) + Len(lx.indent_stack) + lx.next_token_is_dedent

\* C6: next_token never panics, and every call that returns another token
\* than Eof consumes input or reduces the pending lexer state, so Eof is
\* reached after finitely many calls; every call after an Eof returns Eof.
C6_ReachesEofAndStays ==
    [][NextTokenCalled
          => /\ ~panicked'
             /\ Pending(lexer') >= 0
             /\ token'.kind # "Eof" => Pending(lexer') < Pending(lexer)
             /\ (tokens # <<>> /\ Last(tokens).kind = "Eof") => token'.kind = "Eof"]_vars

-----------------------------------------------------------------------------
(* C7 *)

\* the opening brackets that are still unmatched after the first i characters
\* (a closing bracket with nothing to close matches nothing)
RECURSIVE OpenBrackets(_)
OpenBrackets(i) ==
    IF i = 0 THEN 0
    ELSE IF source[i] \in DOMAIN Opening THEN OpenBrackets(i - 1) + 1
    ELSE IF source[i] \in DOMAIN Closing /\ OpenBrackets(i - 1) > 0
    THEN OpenBrackets(i - 1) - 1
    ELSE OpenBrackets(i - 1)

\* C7: a line terminator yields no NewLine token if and only if an opening
\* bracket is still unmatched there; after balanced brackets or a stray
\* closing bracket it yields NewLine.
C7_NewLineUnlessBracketOpen ==
    OverAlphabet(NestAlphabet)
        => \A i \in 1..lexer.current :
              source[i] \in LineTerminators
                  => ((\E k \in 1..Len(tokens) :
                          tokens[k].kind = "NewLine" /\ tokens[k].start = i - 1)
                      <=> OpenBrackets(i - 1) = 0)

-----------------------------------------------------------------------------
(* C8 *)

\* the line at the cursor holds a line terminator and nothing else
BlankLine == CharAt(lexer.current) \in LineTerminators

\* C8: a blank line inside an indented block yields no Dedent and no Indent
\* and leaves the indent stack alone, wherever it is (also as the last line)
\* and whether \n or \r ends it.
C8_BlankLineKeepsIndentation ==
    [][(/\ OverAlphabet(BlankAlphabet)
        /\ NoWhitespaceOnlyLine
        /\ FirstLineNotIndented
        /\ AtLineStart
        /\ Len(lexer.indent_stack) > 1
        /\ BlankLine
        /\ NextTokenCalled)
          => /\ token'.kind \notin {"Dedent", "Indent"}
             /\ lexer'.indent_stack = lexer.indent_stack]_vars

-----------------------------------------------------------------------------
(* C9 and C10 *)

\* the backslashes that stand right before offset i (1-based index i)
RECURSIVE BackslashRun(_)
BackslashRun(i) ==
    IF i >= 1 /\ source[i] = BSL THEN 1 + BackslashRun(i - 1) ELSE 0

\* the source's character i is a quote that no backslash escapes
UnescapedQuote(i) == source[i] = DQ /\ BackslashRun(i - 1) % 2 = 0

\* the source starts a literal with a one-character delimiter
SingleQuotedStart ==
    /\ Len(source) >= 1
    /\ source[1] = DQ
    /\ ~(Len(source) >= 3 /\ source[2] = DQ /\ source[3] = DQ)

SingleEnds == {j \in 2..Len(source) : UnescapedQuote(j)}
FirstOf(S) == CHOOSE j \in S : \A k \in S : j <= k

\* C9: a literal with a one-character delimiter ends at the first matching
\* quote that an even number of backslashes precedes; the token spans from
\* the opening quote to that quote.
C9_SingleQuotedEndsAtFirstUnescapedQuote ==
    (tokens # <<>> /\ SingleQuotedStart /\ SingleEnds # {})
        => /\ tokens[1].kind = "StringLiteral"
           /\ tokens[1].start = 0
           /\ tokens[1].end = FirstOf(SingleEnds)

\* the source starts a triple-quoted literal
TripleQuotedStart ==
    Len(source) >= 3 /\ source[1] = DQ /\ source[2] = DQ /\ source[3] = DQ

\* the offsets j (1-based) after the opening quotes where three quotes start
\* that no backslash escapes
TripleEnds ==
    {j \in 4..(Len(source) - 2) :
        /\ UnescapedQuote(j)
        /\ source[j + 1] = DQ
        /\ source[j + 2] = DQ}

\* C10: a triple-quoted literal, whatever its body (empty too), is one string
\* token from the opening quotes to the end of the first three-quote
\* terminator that is not escaped.
C10_TripleQuotedEndsAtTerminator ==
    (tokens # <<>> /\ TripleQuotedStart /\ TripleEnds # {})
        => /\ tokens[1].kind = "StringLiteral"
           /\ tokens[1].start = 0
           /\ tokens[1].end = FirstOf(TripleEnds) + 2

-----------------------------------------------------------------------------
(* C11 *)

\* the source is one string literal that nothing terminates: a one-character
\* delimiter with no quote that is not escaped after it, or three opening
\* quotes with no three-quote terminator after them (one or two quotes may
\* stand at the end)
UnterminatedLiteral ==
    \/ SingleQuotedStart /\ SingleEnds = {}
    \/ TripleQuotedStart /\ TripleEnds = {}

StringNotTerminated == <<"StringNotTerminated">>

\* C11: a string literal with no terminator before the end of the input is
\* one Error token StringNotTerminated from the literal's first character to
\* the last character of the source (source length minus one), also when a
\* triple-quoted literal is closed by one or two quotes only; nothing but Eof
\* follows it.
C11_UnterminatedStringIsOneError ==
    (tokens # <<>> /\ OverAlphabet(StrAlphabet) /\ UnterminatedLiteral)
        => /\ tokens[1] = Tok("Error", StrValue(StringNotTerminated), 0,
                              Len(source) - 1)
           /\ \A i \in 2..Len(tokens) : tokens[i].kind = "Eof"

-----------------------------------------------------------------------------
(* C12 *)

\* from the 1-based index i up to the closing quote, the body holds literal
\* characters and doubled braces only
RECURSIVE LiteralBody(_)
LiteralBody(i) ==
    IF i >= Len(source) THEN TRUE
    ELSE IF source[i] \in {"a", "f"} THEN LiteralBody(i + 1)
    ELSE IF source[i] \in {"{", "}"} /\ i + 1 < Len(source) /\ source[i + 1] = source[i]
    THEN LiteralBody(i + 2)
    ELSE FALSE

\* the source is one terminated f-string f"..." with such a body
LiteralFString ==
    /\ OverAlphabet(FStrAlphabet)
    /\ Len(source) >= 3
    /\ source[1] = "f"
    /\ source[2] = DQ
    /\ source[Len(source)] = DQ
    /\ LiteralBody(3)

\* the tokens are FStringStart, FStringMiddle tokens, FStringEnd and then Eof
StartMiddlesEnd ==
    /\ tokens[1].kind = "FStringStart"
    /\ \E n \in 2..Len(tokens) :
          /\ tokens[n].kind = "FStringEnd"
          /\ \A i \in 2..(n - 1) : tokens[i].kind = "FStringMiddle"
          /\ \A i \in (n + 1)..Len(tokens) : tokens[i].kind = "Eof"

\* C12: a terminated f-string whose body holds literal characters and doubled
\* braces only, anywhere in the body, lexes as FStringStart, FStringMiddle
\* tokens, FStringEnd: no LeftBracket and no RightBracket, the f-string
\* bracket depth stays 0 and the f-string stack is empty after FStringEnd.
C12_DoubledBracesAreLiteral ==
    LiteralFString
        => /\ ~HasKind("LeftBracket")
           /\ ~HasKind("RightBracket")
           /\ lexer.inside_fstring_bracket = 0
           /\ HasKind("Eof") => StartMiddlesEnd
           /\ (tokens # <<>> /\ Last(tokens).kind = "FStringEnd")
                 => lexer.fstring_stack = <<>>

-----------------------------------------------------------------------------
(* C13 *)

\* the offset of the first character from offset i on that is no binary digit
RECURSIVE BinaryDigitsEnd(_)
BinaryDigitsEnd(i) == IF CharAt(i) \in {"0", "1"} THEN BinaryDigitsEnd(i + 1) ELSE i

\* the source starts with 0b and at least one binary digit
BinaryLiteralStart ==
    /\ OverAlphabet(MixedAlphabet)
    /\ CharAt(0) = "0"
    /\ CharAt(1) = "b"
    /\ CharAt(2) \in {"0", "1"}

\* what ends a literal: the end of the input, white space, a line terminator
Delimiters == {EOF, SP, TAB, LF, CR}

InvalidBinaryDigit == <<"InvalidDigitInBinaryLiteral">>

\* C13: a 0b literal is an Error token InvalidDigitInBinaryLiteral exactly
\* when a digit or a letter outside the base's alphabet follows its digits;
\* followed by the end of the input or by a delimiter it is a Binary token
\* that spans the prefix and the digits.
C13_BasePrefixErrorOnlyOnBadDigit ==
    (tokens # <<>> /\ BinaryLiteralStart)
        => IF CharAt(BinaryDigitsEnd(2)) \in Delimiters
           THEN tokens[1] = Tok("Binary",
                                NumberValue(SubSeq(source, 1, BinaryDigitsEnd(2))),
                                0, BinaryDigitsEnd(2))
           ELSE CharAt(BinaryDigitsEnd(2)) \in IdContinue
                   => /\ tokens[1].kind = "Error"
                      /\ tokens[1].value.text = InvalidBinaryDigit

-----------------------------------------------------------------------------
(* C14 *)

\* errs holds an error that a statement returned, not only diagnostics of
\* statements that did not end their line
HasStatementError(errs) == \E i \in 1..Len(errs) : errs[i].msg # NotEndingMsg

\* the statements of body are in source order
InSourceOrder(body) ==
    \A i \in 1..Len(body) : \A j \in 1..Len(body) :
        i < j => body[i].end <= body[j].start

\* C14: when a top-level statement returns an error, parse() appends that
\* error to parser.errors and stops: the body keeps exactly the statements
\* parsed before, in source order, and after the error nothing more is
\* parsed, added or consumed.
C14_FirstStatementErrorStopsParse ==
    [][/\ (~HasStatementError(parser.errors) /\ HasStatementError(parser'.errors))
             => /\ Len(parser'.errors) = Len(parser.errors) + 1
                /\ SubSeq(parser'.errors, 1, Len(parser.errors)) = parser.errors
                /\ parser'.body = parser.body
                /\ InSourceOrder(parser'.body)
                /\ parser'.pc = "stopped"
       /\ HasStatementError(parser.errors)
             => /\ parser'.body = parser.body
                /\ parser'.errors = parser.errors
                /\ parser'.cur_token = parser.cur_token
                /\ lexer' = lexer
                /\ parser'.pc = "done"]_vars

\* parse() returned after a statement failed: statements before it are in
\* the body, and tokens after it were never looked at
C14_Witness ==
    /\ parser.pc = "done"
    /\ HasStatementError(parser.errors)
    /\ Len(parser.body) >= 1
    /\ parser.cur_token.kind # "Eof"

-----------------------------------------------------------------------------
(* C15 *)

\* C15: when a simple statement was parsed and the token after it is not
\* NewLine, SemiColon or Eof, exactly one diagnostic "Statement does not end
\* in new line or semicolon" is appended to parser.errors, the statement is
\* added to the body, no token is skipped (the diagnostic ends where the
\* token before the current one ends, and the current token stands after the
\* statement), and the loop of parse() goes on.
C15_NotEndingIsNonFatal ==
    [][(/\ parser.pc = "parsing"
        /\ Len(parser'.body) = Len(parser.body) + 1
        /\ ~EndsStatement(parser'.cur_token.kind))
          => /\ parser'.errors =
                    Append(parser.errors,
                           InvalidSyntax(NotEndingMsg, Last(parser'.body).start,
                                         parser'.prev_token_end))
             /\ SubSeq(parser'.body, 1, Len(parser.body)) = parser.body
             /\ parser'.cur_token.start >= Last(parser'.body).end
             /\ parser'.cur_token.start >= parser'.prev_token_end
             /\ parser'.pc = "parsing"]_vars

\* two statements share a line: the diagnostic was recorded for the first,
\* and the second was parsed from the token that followed it
C15_Witness ==
    /\ parser.pc = "done"
    /\ Len(parser.body) = 2
    /\ Len(parser.errors) = 1
    /\ parser.errors[1].msg = NotEndingMsg
    /\ parser.body[2].start = parser.body[1].end + 1

-----------------------------------------------------------------------------
(* C16 *)

\* the source is ( a , ) with, maybe, line terminators after the comma
OneItemWithComma ==
    /\ Len(source) >= 4
    /\ SubSeq(source, 1, 3) = <<"(", "a", ",">>
    /\ source[Len(source)] = ")"
    /\ \A i \in 4..(Len(source) - 1) : source[i] = LF

\* the body is one expression statement
OneExpressionStatement ==
    /\ Len(parser.body) = 1
    /\ parser.body[1].type = "ExpressionStatement"

TheExpression == parser.body[1].elements[1]

\* C16: (a,) parses to a Tuple with exactly one element, also when a line
\* terminator follows the comma, and (a) parses to the bare expression a and
\* not to a Tuple.
C16_TrailingCommaMakesTuple ==
    parser.pc = "done"
        => /\ OneItemWithComma
                 => /\ OneExpressionStatement
                    /\ TheExpression.type = "Tuple"
                    /\ Len(TheExpression.elements) = 1
                    /\ TheExpression.elements[1].type = "Name"
           /\ source = <<"(", "a", ")">>
                 => /\ OneExpressionStatement
                    /\ TheExpression.type = "Name"

-----------------------------------------------------------------------------
(* Symbol table: what the caller knows about the scopes it built *)

\* every scope the caller entered has been exited
AllExited == Len(symbol_table.scopes) = 2

Archived == 1..Len(symbol_table.all_scopes)

\* pos lies in the text of the archived scope sc: behind its start and not
\* behind the position at which the caller left it
Encloses(sc, pos) == sc.start_pos < pos /\ pos <= walk.ends[sc.id]

\* the archived scopes that enclose pos, and the innermost of them
Enclosing(pos) == {i \in Archived : Encloses(symbol_table.all_scopes[i], pos)}

InnermostEnclosing(pos) ==
    CHOOSE i \in Enclosing(pos) :
        \A j \in Enclosing(pos) :
            symbol_table.all_scopes[j].start_pos <= symbol_table.all_scopes[i].start_pos

\* name as Python resolves it from the scope with this id: the scope, then
\* the scopes the caller was in when it entered it, the module scope last
RECURSIVE Resolve(_, _)
Resolve(name, id) ==
    IF id = global_scope(symbol_table).id
    THEN get(global_scope(symbol_table).symbols, name)
    ELSE IF name \in DOMAIN symbol_table.all_scopes[ScopeById(symbol_table, id)].symbols
    THEN symbol_table.all_scopes[ScopeById(symbol_table, id)].symbols[name]
    ELSE Resolve(name, walk.enclosing[id])

\* C17: once every scope has been exited, lookup_in_scope of a name at a
\* position inside an archived scope answers from the innermost scope that
\* holds the position, then from the scopes that enclose it in turn, and
\* from the module scope last.
C17_LookupWalksEnclosingScopes ==
    ( /\ AllExited
      /\ answer.op = "lookup_in_scope"
      /\ answer.position # NoPosition
      /\ Enclosing(answer.position) # {} )
    => answer.node
           = Resolve(answer.name,
                     symbol_table.all_scopes[InnermostEnclosing(answer.position)].id)

\* the open and the archived scopes
AllScopes == symbol_table.scopes \o symbol_table.all_scopes

\* name is declared in the scope with this id and in no other scope
DeclaredOnlyIn(name, id) ==
    \A i \in 1..Len(AllScopes) :
        (name \in DOMAIN AllScopes[i].symbols) <=> (AllScopes[i].id = id)

\* C18: a name declared only inside a function is found by a lookup without
\* a position while the function is the current scope, is not found by such
\* a lookup once the function has been exited, and is found then by a lookup
\* at a position inside the function.
C18_FunctionLocalFoundOnlyInside ==
    answer.op = "lookup_in_scope" =>
        /\ ( /\ answer.position = NoPosition
             /\ current_scope(symbol_table).symbol_table_type = "Function"
             /\ DeclaredOnlyIn(answer.name, current_scope(symbol_table).id) )
           => answer.node = current_scope(symbol_table).symbols[answer.name]
        /\ \A i \in Archived :
              ( /\ symbol_table.all_scopes[i].symbol_table_type = "Function"
                /\ DeclaredOnlyIn(answer.name, symbol_table.all_scopes[i].id) )
              => IF answer.position = NoPosition
                 THEN answer.node = NoNode
                 ELSE Encloses(symbol_table.all_scopes[i], answer.position)
                          => answer.node = symbol_table.all_scopes[i].symbols[answer.name]

\* the declarations come in the order of the add_symbol calls
InOrderOfArrival(declarations) ==
    \A i, j \in 1..Len(declarations) :
        i < j => declarations[i].serial < declarations[j].serial

\* the number of declarations a scope holds for these names
RECURSIVE HeldIn(_, _)
HeldIn(symbols, names) ==
    IF names = {} THEN 0
    ELSE LET n == CHOOSE n \in names : TRUE
         IN  Len(get(symbols, n).declarations) + HeldIn(symbols, names \ {n})

\* and the number these scopes hold for the names of the caller
RECURSIVE Held(_)
Held(scs) ==
    IF scs = <<>> THEN 0 ELSE HeldIn(Head(scs).symbols, Names) + Held(Tail(scs))

\* C19: add_symbol loses no declaration, and a node keeps its declarations
\* in the order in which they were added, the oldest first and the newest
\* last.
C19_DeclarationsInOrderOfArrival ==
    /\ Held(AllScopes) = walk.serial
    /\ \A i \in 1..Len(AllScopes) :
          \A name \in DOMAIN AllScopes[i].symbols :
              InOrderOfArrival(AllScopes[i].symbols[name].declarations)

\* the places in the node of the answer of the declarations that start
\* before the position of the answer
Before == {i \in 1..Len(answer.node.declarations) :
              answer.node.declarations[i].start < answer.position}

\* C20: declaration_until_position returns None when no declaration of the
\* node starts before the position, and otherwise one of the declarations
\* that start before it, with the greatest start among them, wherever the
\* node stores it.
C20_LatestDeclarationBeforePosition ==
    answer.op = "declaration_until_position" =>
        IF Before = {}
        THEN answer.declaration = NoDeclaration
        ELSE \E i \in Before :
                /\ answer.declaration = answer.node.declarations[i]
                /\ \A j \in Before :
                      answer.node.declarations[j].start
                          <= answer.node.declarations[i].start

\* a node of three declarations, one of them not before the position; the
\* one returned is neither the first nor the last the node stores
C20_Witness ==
    /\ answer.op = "declaration_until_position"
    /\ Len(answer.node.declarations) = 3
    /\ Before = {2, 3}
    /\ answer.declaration = answer.node.declarations[2]
    /\ answer.node.declarations[3].start < answer.node.declarations[2].start

\* the bootstrap symbols of the builtin scope
Bootstrap == global.scopes[1].symbols

\* C21: the live stack starts with the one BUILTIN scope and then the one
\* Module scope; the builtin scope has no parent and holds the four
\* bootstrap classes as SymbolTable::global() made them; the parent of the
\* module scope is the id of the builtin scope.
C21_BuiltinThenModule ==
    /\ Len(symbol_table.scopes) >= 2
    /\ \A i \in 1..Len(symbol_table.scopes) :
          /\ (symbol_table.scopes[i].symbol_table_type = "BUILTIN") <=> (i = 1)
          /\ (symbol_table.scopes[i].symbol_table_type = "Module") <=> (i = 2)
    /\ symbol_table.scopes[1].parent = NoId
    /\ DOMAIN symbol_table.scopes[1].symbols = BuiltinNames
    /\ symbol_table.scopes[1].symbols = Bootstrap
    /\ symbol_table.scopes[2].parent = symbol_table.scopes[1].id

\* symbols were added to the module scope and to a scope that was entered
\* and exited again
C21_Witness ==
    /\ AllExited
    /\ symbol_table.scopes[2].symbols # NoSymbols
    /\ \E i \in Archived : symbol_table.all_scopes[i].symbols # NoSymbols

\* s is t but for the symbols of the top live scope
SameButTopSymbols(s, t) ==
    /\ s.all_scopes = t.all_scopes
    /\ Len(s.scopes) = Len(t.scopes)
    /\ Front(s.scopes) = Front(t.scopes)
    /\ [Last(s.scopes) EXCEPT !.symbols = NoSymbols]
           = [Last(t.scopes) EXCEPT !.symbols = NoSymbols]

\* C22: whatever the caller does, the scopes of all_scopes stay as they are
\* and where they are; exit_scope moves the top live scope, as it is, to
\* the end of all_scopes; add_symbol changes the symbols of the top live
\* scope and nothing else; enter_scope and the queries leave all_scopes alone.
C22_ArchiveIsAppendOnly ==
    [][ /\ SubSeq(symbol_table'.all_scopes, 1, Len(symbol_table.all_scopes))
               = symbol_table.all_scopes
        /\ Len(symbol_table'.scopes) < Len(symbol_table.scopes)
               => /\ symbol_table'.scopes = Front(symbol_table.scopes)
                  /\ symbol_table'.all_scopes
                         = Append(symbol_table.all_scopes, Last(symbol_table.scopes))
        /\ Len(symbol_table'.scopes) > Len(symbol_table.scopes)
               => /\ Front(symbol_table'.scopes) = symbol_table.scopes
                  /\ symbol_table'.all_scopes = symbol_table.all_scopes
        /\ Len(symbol_table'.scopes) = Len(symbol_table.scopes)
               => SameButTopSymbols(symbol_table', symbol_table)
        /\ answer' # NoAnswer => symbol_table' = symbol_table
      ]_vars

\* two scopes with symbols are archived, and a symbol was added after that
C22_Witness ==
    /\ Len(symbol_table.all_scopes) = 2
    /\ \A i \in Archived : symbol_table.all_scopes[i].symbols # NoSymbols
    /\ current_scope(symbol_table).symbols # NoSymbols
    /\ answer.op = "lookup_in_scope"

\* the ids of the scopes of the symbol table
Ids(scs) == {scs[i].id : i \in 1..Len(scs)}

\* C23: the ids of the scopes of a symbol table are pairwise distinct, and
\* they are the ids the table gets when its pipeline is the only one of the
\* process: 0 and 1 for the builtin and the module scope, then one more for
\* each scope entered, whatever the pipelines of other files do meanwhile.
C23_IdsAsWhenAlone ==
    /\ Cardinality(Ids(AllScopes)) = Len(AllScopes)
    /\ Ids(AllScopes) = 0..(walk.entered + 1)

-----------------------------------------------------------------------------
(* C24 *)

\* the number of spaces and tabs that start at offset i of the source
RECURSIVE BlanksAt(_)
BlanksAt(i) == IF CharAt(i) \in {SP, TAB} THEN 1 + BlanksAt(i + 1) ELSE 0

\* the line at the cursor has something on it behind its indentation
LineHasText ==
    CharAt(lexer.current + BlanksAt(lexer.current)) \notin {EOF, LF, CR}

\* the levels of the indent stack above column w
LevelsAbove(w) ==
    Cardinality({i \in 1..Len(lexer.indent_stack) : lexer.indent_stack[i] > w})

\* the line at the cursor is indented to a level of the stack below its top
MatchedUnindent ==
    /\ LineHasText
    /\ lexer.next_token_is_dedent = 0
    /\ IndentWidth(lexer.current) < Last(lexer.indent_stack)
    /\ \E i \in 1..Len(lexer.indent_stack) :
          lexer.indent_stack[i] = IndentWidth(lexer.current)

\* C24: at the start of a line indented k >= 1 levels below the top of the
\* indent stack, to a level of the stack, next_token returns a Dedent with
\* the count k, pops the stack to the indentation of the line and leaves
\* k - 1 dedents pending; while dedents are pending, each next_token returns
\* one Dedent and takes one off the pending count, down to 0.
C24_QueuedDedentsDrain ==
    [][NextTokenCalled =>
          /\ (AtLineStart /\ MatchedUnindent)
                => /\ ~panicked'
                   /\ token' = Tok("Dedent",
                                   IndentValue(LevelsAbove(IndentWidth(lexer.current))),
                                   lexer.current,
                                   lexer.current + BlanksAt(lexer.current))
                   /\ lexer'.next_token_is_dedent
                          = LevelsAbove(IndentWidth(lexer.current)) - 1
                   /\ Last(lexer'.indent_stack) = IndentWidth(lexer.current)
          /\ lexer.next_token_is_dedent > 0
                => /\ ~panicked'
                   /\ token'.kind = "Dedent"
                   /\ lexer'.next_token_is_dedent = lexer.next_token_is_dedent - 1
                   /\ lexer'.indent_stack = lexer.indent_stack
                   /\ lexer'.current = lexer.current
      ]_vars

\* a line two levels below the top: a Dedent with the count 2, the queued
\* Dedent, and then the first token of the line
C24_Witness ==
    \E i \in 1..Len(tokens) :
        /\ i + 2 <= Len(tokens)
        /\ tokens[i].kind = "Dedent"
        /\ tokens[i].value = IndentValue(2)
        /\ tokens[i + 1].kind = "Dedent"
        /\ tokens[i + 1].value = NoneValue
        /\ tokens[i + 2].kind = "Identifier"
        /\ tokens[i + 2].start = tokens[i + 1].end

-----------------------------------------------------------------------------
(* C25 *)

\* the source is one f-string literal from its first character on
StartsWithFString ==
    Len(source) >= 2 /\ source[1] = "f" /\ source[2] = DQ

\* no closing brace of the source is followed by another one
NoDoubledClose ==
    \A i \in 1..Len(source) :
        (source[i] = "}" /\ i < Len(source)) => source[i + 1] # "}"

\* the lexer is in the interpolation of that f-string, and in no f-string
\* nested in it
InInterpolation ==
    /\ StartsWithFString
    /\ NoDoubledClose
    /\ Len(lexer.fstring_stack) = 1
    /\ lexer.inside_fstring_bracket = 1

\* C25: in the interpolation of an f-string, a brace of the expression is an
\* ordinary bracket that leaves the f-string bracket depth alone, and the
\* RightBracket that takes the depth back to 0 is the one of the matching
\* closing brace: every brace the expression opened is closed by then, so
\* that the bracket nesting is what it was when the interpolation opened.
C25_InterpolationClosesAtMatchingBrace ==
    [][(NextTokenCalled /\ InInterpolation /\ ~panicked')
          => /\ lexer'.inside_fstring_bracket = 0
                   => /\ token'.kind = "RightBracket"
                      /\ lexer.nesting = 0
                      /\ lexer'.nesting = 0
             /\ token'.kind = "LeftBracket"
                   => /\ lexer'.inside_fstring_bracket = 1
                      /\ lexer'.nesting = lexer.nesting + 1
      ]_vars

-----------------------------------------------------------------------------
(* C26 *)

\* the parser is in the loop of parse(), or has left it
ParserRuns == parser.pc \in {"parsing", "stopped", "done"}

\* the skipping of the mismatch m ended behind a NewLine or a SemiColon, or at Eof
SkippedToBoundary(m) ==
    \/ m.cursor.kind = "Eof"
    \/ /\ m.prev_token_end >= 1
       /\ source[m.prev_token_end] \in {LF, ";"}

Reported(m) == \E i \in 1..Len(parser.errors) : parser.errors[i] = m.err

\* C26: every expect(kind) that found another kind, or an Error token, left
\* the cursor just behind the next NewLine or SemiColon or at Eof, and its
\* ParsingError is in parser.errors when the statement has been parsed.
C26_ExpectMismatchIsReported ==
    ParserRuns =>
        \A i \in 1..Len(parser.mismatches) :
            parser.mismatches[i].status = "run"
                => /\ SkippedToBoundary(parser.mismatches[i])
                   /\ Reported(parser.mismatches[i])

-----------------------------------------------------------------------------
(* C27 *)

\* the bracket at the cursor is one more than the nesting counter can hold
OneBracketTooMany ==
    /\ lexer.nesting = 127
    /\ lexer.fstring_stack = <<>>
    /\ CharAt(lexer.current) \in DOMAIN Opening

\* C27: the opening bracket that takes the nesting beyond the range of the
\* 8-bit signed counter makes next_token return an Error token: the call
\* neither panics nor wraps the counter around to -128.
C27_NestingOverflowIsAnError ==
    [][(OneBracketTooMany /\ NextTokenCalled)
          => /\ ~panicked'
             /\ token'.kind = "Error"
             /\ lexer'.nesting \in 0..127]_vars

-----------------------------------------------------------------------------
(* C28 *)

\* stmts is the suite of the clause named name: the expression statement of
\* that name and nothing else
IsSuiteOf(stmts, name) ==
    /\ Len(stmts) = 1
    /\ stmts[1].type = "ExpressionStatement"
    /\ Len(stmts[1].elements) = 1
    /\ stmts[1].elements[1].type = "Name"
    /\ stmts[1].elements[1].id = <<name>>

\* node is the If of the clause named name
IsClause(node, name) ==
    /\ node.type = "If"
    /\ node.test.type = "Name"
    /\ node.test.id = <<name>>
    /\ IsSuiteOf(node.body, name)

\* node is the If of elif k of n, and below it the chain goes on to the else
\* body
RECURSIVE IsChainFrom(_, _, _, _)
IsChainFrom(node, k, n, has_else) ==
    /\ IsClause(node, IF k = 0 THEN "a" ELSE ClauseName(k))
    /\ IF k < n
       THEN /\ Len(node.orelse) = 1
            /\ IsChainFrom(node.orelse[1], k + 1, n, has_else)
       ELSE IF has_else THEN IsSuiteOf(node.orelse, "z")
       ELSE node.orelse = <<>>

ParsedIf(n, has_else, form) ==
    /\ source = IfSource(n, has_else, form)
    /\ parser.pc = "done"

\* C28: an if statement with n >= 1 elif clauses and an optional else clause
\* parses to one If whose orelse chain holds every elif in order, each with
\* its own test and body, and the else body (or nothing) under the last elif.
C28_ElifChainKeepsEveryClause ==
    \A n \in 1..MaxElifs, has_else \in BOOLEAN, form \in {"inline", "block"} :
        ParsedIf(n, has_else, form)
            => /\ parser.errors = <<>>
               /\ Len(parser.body) = 1
               /\ IsChainFrom(parser.body[1], 0, n, has_else)

\* the chains of at most one elif clause, and of two without an else clause
C28_ShortChainsKept ==
    \A n \in 0..2, has_else \in BOOLEAN, form \in {"inline", "block"} :
        ParsedIf(n, has_else, form) /\ (n = 2 => ~has_else)
            => /\ parser.errors = <<>>
               /\ Len(parser.body) = 1
               /\ IsChainFrom(parser.body[1], 0, n, has_else)

-----------------------------------------------------------------------------
(* C29 *)

ParsedChain(op, n) ==
    /\ source = OperatorChain(op, n)
    /\ parser.pc = "done"

\* the Module is one expression statement over the whole source, nothing was
\* reported and nothing is left
OneExpressionOverAll ==
    /\ parser.errors = <<>>
    /\ parser.cur_token.kind = "Eof"
    /\ Len(parser.body) = 1
    /\ parser.body[1].type = "ExpressionStatement"
    /\ parser.body[1].start = 0
    /\ parser.body[1].end = Len(source)

\* C29: three or more operands joined by the same operator, be it or, and,
\* ^ or <<, parse to one expression statement covering all the operands,
\* with no diagnostic and no leftover tokens.
C29_SameOperatorChainIsOneExpression ==
    \A op \in {"Or", "And", "BitXor", "LeftShift"}, n \in 3..MaxOperands :
        ParsedChain(op, n) => OneExpressionOverAll

\* the chains of or, and the chains of two operands of every operator
C29_OrChainsAndPairs ==
    \A op \in DOMAIN Spelling, n \in 2..MaxOperands :
        ParsedChain(op, n) /\ (op = "Or" \/ n = 2) => OneExpressionOverAll

-----------------------------------------------------------------------------
(* C30 *)

Parsed(src) ==
    /\ source = src
    /\ parser.pc = "done"

\* the Module is one expression statement holding the tuple of these elements
IsTupleStatement(body, n) ==
    /\ Len(body) = 1
    /\ body[1].type = "ExpressionStatement"
    /\ Len(body[1].elements) = 1
    /\ body[1].elements[1].type = "Tuple"
    /\ Len(body[1].elements[1].elements) = n

\* C30: parse_paren_form_or_generator returns Ok only behind the ')' that
\* closes its '(': the source "()" parses to one expression statement that
\* holds an empty Tuple, parser.errors is empty and the cursor is at Eof.
C30_EmptyParensAreConsumed ==
    Parsed(<<"(", ")">>)
        => /\ parser.errors = <<>>
           /\ parser.cur_token.kind = "Eof"
           /\ IsTupleStatement(parser.body, 0)

\* parentheses around one or two items are consumed up to the ')'
C30_NonEmptyParensAreConsumed ==
    \A src \in ParenSources :
        Parsed(src)
            => /\ parser.errors = <<>>
               /\ parser.cur_token.kind = "Eof"
               /\ Len(parser.body) = 1

====
